---------------------------- MODULE Spec2Model ----------------------------
(***************************************************************************)
(* Model of the competitor-price scraping pipeline:                        *)
(*   - HTTPScraper.fetch          (request-based transport)                *)
(*   - BrowserScraperV2.fetch     (scripted-browser transport)             *)
(*   - JarirConnector, JarirBrowserConnector, GoogleShoppingConnector      *)
(*     and the PriceExtractor strategies they run.                         *)
(*                                                                         *)
(* Strings are sequences of one-character strings.  Numbers are integers;  *)
(* the price texts of the model carry no decimal point, so ParseFloat is   *)
(* exact on them.  NaN is the record NaN below.                            *)
(***************************************************************************)
EXTENDS Integers, Sequences, FiniteSets, TLC

\* ------------------------------------------------------------------ bounds
\* Number of markup elements (blocks, containers, cards) a fetched page holds.
MaxDocSize == 2
\* Number of text fragments an HTTP response body is made of.
MaxFrags == 2

\* --------------------------------------------------------- string helpers
\* String.prototype.toLowerCase on one character of the model's alphabet.
LowerChar(c) ==
  CASE c = "A" -> "a" [] c = "B" -> "b" [] c = "C" -> "c" [] c = "D" -> "d"
    [] c = "E" -> "e" [] c = "H" -> "h" [] c = "I" -> "i" [] c = "K" -> "k"
    [] c = "L" -> "l" [] c = "O" -> "o" [] c = "P" -> "p" [] c = "S" -> "s"
    [] c = "T" -> "t" [] c = "V" -> "v"
    [] OTHER -> c

\* String.prototype.toLowerCase.
ToLowerCase(s) == [i \in 1..Len(s) |-> LowerChar(s[i])]

\* String.prototype.includes.
Includes(s, sub) ==
  \E i \in 0..(Len(s) - Len(sub)) : SubSeq(s, i + 1, i + Len(sub)) = sub

IsSpace(c) == c = " "

RECURSIVE TrimStart(_)
TrimStart(s) ==
  IF s = <<>> THEN <<>>
  ELSE IF IsSpace(Head(s)) THEN TrimStart(Tail(s)) ELSE s

RECURSIVE TrimEnd(_)
TrimEnd(s) ==
  IF s = <<>> THEN <<>>
  ELSE IF IsSpace(s[Len(s)]) THEN TrimEnd(SubSeq(s, 1, Len(s) - 1)) ELSE s

\* String.prototype.trim.
Trim(s) == TrimEnd(TrimStart(s))

Digits == {"0", "1", "2", "3", "4", "5", "6", "7", "8", "9"}

DigitVal(c) ==
  CASE c = "0" -> 0 [] c = "1" -> 1 [] c = "2" -> 2 [] c = "3" -> 3
    [] c = "4" -> 4 [] c = "5" -> 5 [] c = "6" -> 6 [] c = "7" -> 7
    [] c = "8" -> 8 [] c = "9" -> 9

DigitChar(d) ==
  CASE d = 0 -> "0" [] d = 1 -> "1" [] d = 2 -> "2" [] d = 3 -> "3"
    [] d = 4 -> "4" [] d = 5 -> "5" [] d = 6 -> "6" [] d = 7 -> "7"
    [] d = 8 -> "8" [] d = 9 -> "9"

\* text.replace(/[^0-9.]/g, '')
RECURSIVE StripNonNumeric(_)
StripNonNumeric(s) ==
  IF s = <<>> THEN <<>>
  ELSE IF Head(s) \in Digits \cup {"."}
       THEN <<Head(s)>> \o StripNonNumeric(Tail(s))
       ELSE StripNonNumeric(Tail(s))

\* text.replace(/,/g, '')
RECURSIVE StripCommas(_)
StripCommas(s) ==
  IF s = <<>> THEN <<>>
  ELSE IF Head(s) = "," THEN StripCommas(Tail(s))
       ELSE <<Head(s)>> \o StripCommas(Tail(s))

\* A JavaScript number: NaN, or the integer v.
NaN == [nan |-> TRUE, v |-> 0]
Num(n) == [nan |-> FALSE, v |-> n]
IsNaN(x) == x.nan

RECURSIVE LeadingDigits(_)
LeadingDigits(s) ==
  IF s = <<>> \/ Head(s) \notin Digits THEN <<>>
  ELSE <<Head(s)>> \o LeadingDigits(Tail(s))

RECURSIVE DigitsValue(_)
DigitsValue(s) ==
  IF s = <<>> THEN 0
  ELSE 10 * DigitsValue(SubSeq(s, 1, Len(s) - 1)) + DigitVal(s[Len(s)])

\* parseFloat on a text without a decimal point: optional leading blanks and
\* sign, then the longest run of digits; NaN when there is no digit.
ParseFloat(s) ==
  LET t == TrimStart(s)
      neg == t # <<>> /\ Head(t) = "-"
      u == IF t # <<>> /\ Head(t) \in {"-", "+"} THEN Tail(t) ELSE t
      d == LeadingDigits(u)
  IN IF d = <<>> THEN NaN
     ELSE Num(IF neg THEN 0 - DigitsValue(d) ELSE DigitsValue(d))

RECURSIVE NatToString(_)
NatToString(n) ==
  IF n < 10 THEN <<DigitChar(n)>>
  ELSE NatToString(n \div 10) \o <<DigitChar(n % 10)>>

\* String(value) of a JSON value that is a number or a string.
\* A raw JSON scalar is [t |-> "num", n |-> Int, s |-> <<>>] or
\* [t |-> "str", n |-> 0, s |-> text].
JNum(n) == [t |-> "num", n |-> n, s |-> <<>>]
JStr(s) == [t |-> "str", n |-> 0, s |-> s]
ToStringJs(x) ==
  IF x.t = "str" THEN x.s
  ELSE IF x.n < 0 THEN <<"-">> \o NatToString(0 - x.n) ELSE NatToString(x.n)

\* JavaScript truthiness of a raw JSON scalar.
Truthy(x) == IF x.t = "str" THEN x.s # <<>> ELSE x.n # 0

RECURSIVE AllDigits(_)
AllDigits(s) == s = <<>> \/ (Head(s) \in Digits /\ AllDigits(Tail(s)))

\* Number(value) of a raw JSON scalar (a string without a decimal point).
ToNumberJs(x) ==
  IF x.t = "num" THEN Num(x.n)
  ELSE LET t == Trim(x.s)
           u == IF t # <<>> /\ Head(t) \in {"-", "+"} THEN Tail(t) ELSE t
       IN IF t = <<>> THEN Num(0)
          ELSE IF u # <<>> /\ AllDigits(u) THEN ParseFloat(t) ELSE NaN

\* ------------------------------------------------------------- the texts
nIpad == <<"i", "P", "a", "d">>
nIPAD == <<"I", "P", "A", "D">>
nTV == <<"T", "V">>
nAbc == <<"a", "b", "c">>
nPadTV == <<" ", "T", "V", " ">>
nLong == <<"T", "a", "b", "l", "e", "t">>
tNone == <<>>
t5 == <<"5">>
t7 == <<"7">>
t0 == <<"0">>
tNeg5 == <<"-", "5">>
tX == <<"x">>
t1c200 == <<"1", ",", "2", "0", "0">>

nUnknownProduct == <<"U", "n", "k", "n", "o", "w", "n", " ", "P", "r", "o", "d", "u", "c", "t">>

\* ------------------------------------------------- the fetched page (input)
\* A page is what the extraction regexes can see of it, part by part, each part
\* in document order:
\*   ld     <script type="application/ld+json"> blocks
\*   og     og:/product: <meta> groups (price amount, title)
\*   dom    items of the #__SCRAPER_DOM_PRODUCTS__ block
\*   api    payloads of the #__SCRAPER_API_PAYLOADS__ block ("payload") and the
\*          page's own <script type="application/json"> blocks ("script")
\*   attrs  "name": ... "price": ... snippets in attributes and scripts
\*   links  <a href=".../p/..."> anchors with the price found around them
\*   items  <li class="product-item"> containers
\*   cards  <a href=".../shopping/product..."> cards
\* blobEnc is how the two scraper blocks are written: "json" or "base64".
Parts == {"ld", "og", "dom", "api", "attrs", "links", "items", "cards"}

JNone == [t |-> "none", n |-> 0, s |-> <<>>]
JObj(name, price, kids) == [name |-> name, price |-> price, kids |-> kids]

LdBlocks ==
  { [kind |-> "product", name |-> nIpad, price |-> JNum(5)],
    [kind |-> "product", name |-> nTV, price |-> JStr(t7)],
    [kind |-> "product", name |-> nIpad, price |-> JNum(0)],
    [kind |-> "product", name |-> nIpad, price |-> JStr(tX)],
    [kind |-> "other", name |-> nIpad, price |-> JNum(5)],
    [kind |-> "unparsable", name |-> tNone, price |-> JNone] }

OgMetas ==
  { [price |-> t5, title |-> nIpad],
    [price |-> t5, title |-> tNone],
    [price |-> t7, title |-> nTV],
    [price |-> tX, title |-> nIpad],
    [price |-> t0, title |-> nIpad] }

DomItems ==
  { [name |-> nIpad, price |-> JNum(5)],
    [name |-> nIPAD, price |-> JNum(5)],
    [name |-> nAbc, price |-> JNum(7)],
    [name |-> nIpad, price |-> JStr(tX)] }

ApiBlocks ==
  { [where |-> "payload", root |-> JObj(nIpad, JNum(5), <<>>)],
    [where |-> "payload", root |-> JObj(nAbc, JStr(t7), <<>>)],
    [where |-> "payload",
     root |-> JObj(tNone, JNone, <<JObj(nIpad, JNum(5), <<>>), JObj(nIPAD, JStr(t5), <<>>)>>)],
    [where |-> "script", root |-> JObj(nLong, JNum(7), <<>>)] }

AttrSnippets ==
  { [name |-> nIpad, price |-> JNum(5), parses |-> TRUE],
    [name |-> nIpad, price |-> JNum(5), parses |-> FALSE],
    [name |-> nAbc, price |-> JNum(7), parses |-> TRUE] }

LinkBlocks ==
  { [name |-> nIpad, price |-> t5],
    [name |-> nIPAD, price |-> t1c200],
    [name |-> nTV, price |-> t5],
    [name |-> nIpad, price |-> tNone] }

ListItems ==
  { [name |-> nIpad, attr |-> t5, span |-> tNone],
    [name |-> nIPAD, attr |-> tNone, span |-> t5],
    [name |-> nTV, attr |-> t7, span |-> tNone],
    [name |-> nIpad, attr |-> tNeg5, span |-> t7],
    [name |-> nIpad, attr |-> t0, span |-> t7],
    [name |-> tNone, attr |-> t5, span |-> tNone] }

ShoppingCards ==
  { [anchor |-> nLong, fallback |-> tNone, prices |-> <<t5>>],
    [anchor |-> nIpad, fallback |-> nIPAD, prices |-> <<t5>>],
    [anchor |-> nTV, fallback |-> tNone, prices |-> <<t5>>],
    [anchor |-> nLong, fallback |-> tNone, prices |-> <<t0, t1c200>>] }

Universe(part) ==
  CASE part = "ld" -> LdBlocks
    [] part = "og" -> OgMetas
    [] part = "dom" -> DomItems
    [] part = "api" -> ApiBlocks
    [] part = "attrs" -> AttrSnippets
    [] part = "links" -> LinkBlocks
    [] part = "items" -> ListItems
    [] part = "cards" -> ShoppingCards

EmptyDoc(enc) ==
  [ld |-> <<>>, og |-> <<>>, dom |-> <<>>, api |-> <<>>, attrs |-> <<>>,
   links |-> <<>>, items |-> <<>>, cards |-> <<>>, blobEnc |-> enc]

DocSize(d) ==
  Len(d.ld) + Len(d.og) + Len(d.dom) + Len(d.api) + Len(d.attrs)
    + Len(d.links) + Len(d.items) + Len(d.cards)

\* --------------------------------------------------------- PriceExtractor
\* A ScrapedProduct, as far as the pipeline's invariants read it.
Product(name, price, method) == [name |-> name, price |-> price, method |-> method]

Min(a, b) == IF a < b THEN a ELSE b

\* Array.prototype.slice(0, n)
Take(s, n) == SubSeq(s, 1, Min(n, Len(s)))

\* The limits the extraction loops are written with.
DomProductsLimit == 80
ApiPayloadsLimit == 40
JsonScriptBlocksLimit == 30
JsonAttributesLimit == 30
GenericLinksLimit == 80
SearchResultsLimit == 10
ShoppingCardsLimit == 120
ShoppingResultsLimit == 30

\* `${product.name.toLowerCase()}::${product.price}`
DedupKey(p) == ToLowerCase(p.name) \o <<":", ":">> \o NatToString(p.price)

\* Mutant of DedupFrom: of the candidates of equal key the last one is kept.
RECURSIVE DedupKeepsLast(_, _)
DedupKeepsLast(products, seen) ==
  IF products = <<>> THEN <<>>
  ELSE IF \E i \in 2..Len(products) : DedupKey(products[i]) = DedupKey(Head(products))
       THEN DedupKeepsLast(Tail(products), seen)
       ELSE <<Head(products)>> \o DedupKeepsLast(Tail(products), seen)

\* const dedup = new Map(); for (p of products) if (!dedup.has(key)) dedup.set(key, p);
\* [...dedup.values()]
RECURSIVE DedupFrom(_, _)
DedupFrom(products, seen) ==
  IF products = <<>> THEN <<>>
  ELSE IF DedupKey(Head(products)) \in seen
       THEN DedupFrom(Tail(products), seen)
       ELSE <<Head(products)>>
              \o DedupFrom(Tail(products), seen \cup {DedupKey(Head(products))})

Dedup(products) == DedupFrom(products, {})

\* PriceExtractor.parseJsonLdProduct: <<>> stands for null.
ParseJsonLdProduct(data) ==
  IF data.name = <<>> \/ ~Truthy(data.price) THEN <<>>
  ELSE LET priceNum == ParseFloat(StripNonNumeric(ToStringJs(data.price)))
       IN IF IsNaN(priceNum) \/ priceNum.v <= 0 THEN <<>>
          ELSE <<Product(data.name, priceNum.v, "json-ld")>>

RECURSIVE FirstJsonLdProduct(_)
FirstJsonLdProduct(blocks) ==
  IF blocks = <<>> THEN <<>>
  ELSE LET b == Head(blocks)
           product == IF b.kind = "product" THEN ParseJsonLdProduct(b) ELSE <<>>
       IN IF product # <<>> THEN product ELSE FirstJsonLdProduct(Tail(blocks))

\* PriceExtractor.extractFromJsonLd: a list of at most one product.
ExtractFromJsonLd(html) == FirstJsonLdProduct(html.ld)

RECURSIVE FirstTitle(_)
FirstTitle(metas) ==
  IF metas = <<>> THEN <<>>
  ELSE IF Head(metas).title # <<>> THEN Head(metas).title
       ELSE FirstTitle(Tail(metas))

\* PriceExtractor.extractFromOpenGraph: a list of at most one product.
ExtractFromOpenGraph(html) ==
  IF html.og = <<>> THEN <<>>
  ELSE LET price == ParseFloat(StripNonNumeric(Head(html.og).price))
           title == FirstTitle(html.og)
           name == IF title # <<>> THEN title ELSE nUnknownProduct
       IN IF IsNaN(price) \/ price.v <= 0 THEN <<>>
          ELSE <<Product(name, price.v, "opengraph")>>

RECURSIVE DomCandidates(_)
DomCandidates(rawItems) ==
  IF rawItems = <<>> THEN <<>>
  ELSE LET item == Head(rawItems)
           name == Trim(item.name)
           price == ToNumberJs(item.price)
       IN (IF name = <<>> \/ Len(name) < 4 \/ IsNaN(price) \/ price.v <= 0
           THEN <<>>
           ELSE <<Product(name, price.v, "css-selector")>>)
            \o DomCandidates(Tail(rawItems))

\* How BrowserScraperV2.fetch writes the body of the blocks it appends:
\* btoa(unescape(encodeURIComponent(JSON.stringify(...)))).
BlobEncoding == "base64"

\* PriceExtractor.extractFromEmbeddedDomProducts
ExtractFromEmbeddedDomProducts(html) ==
  IF html.dom = <<>> THEN <<>>
  ELSE IF html.blobEnc # "json" THEN <<>>
  ELSE Dedup(DomCandidates(Take(html.dom, DomProductsLimit)))

\* PriceExtractor.collectProductsFromApiObject on one object, and on the
\* members of an array or the nested values of an object.
RECURSIVE CollectProductsFromApiObject(_)
RECURSIVE CollectFromValues(_)
CollectProductsFromApiObject(record) ==
  LET numericPrice == ParseFloat(StripNonNumeric(ToStringJs(record.price)))
      own == IF Len(Trim(record.name)) > 2 /\ record.price.t # "none"
                  /\ ~IsNaN(numericPrice) /\ numericPrice.v > 0
             THEN <<Product(Trim(record.name), numericPrice.v, "api")>>
             ELSE <<>>
  IN own \o CollectFromValues(record.kids)

CollectFromValues(values) ==
  IF values = <<>> THEN <<>>
  ELSE CollectProductsFromApiObject(Head(values)) \o CollectFromValues(Tail(values))

RECURSIVE RootsOf(_)
RootsOf(blocks) ==
  IF blocks = <<>> THEN <<>> ELSE <<Head(blocks).root>> \o RootsOf(Tail(blocks))

RECURSIVE DomItemsAsObjects(_)
DomItemsAsObjects(items) ==
  IF items = <<>> THEN <<>>
  ELSE <<JObj(Head(items).name, Head(items).price, <<>>)>> \o DomItemsAsObjects(Tail(items))

\* html.match(/<script[^>]*type=["']application\/json["'][^>]*>...<\/script>/gi):
\* the page's own JSON script blocks, then the blocks the browser transport
\* appended (the payload block holds no name-like key; the DOM block does).
ScriptJsonBlocks(html) ==
  LET own == SelectSeq(html.api, LAMBDA b : b.where = "script")
  IN [i \in 1..Len(own) |-> <<own[i].root>>]
       \o <<<<>>>>
       \o (IF html.dom = <<>> THEN <<>> ELSE <<DomItemsAsObjects(html.dom)>>)

RECURSIVE CollectFromBlocks(_)
CollectFromBlocks(blocks) ==
  IF blocks = <<>> THEN <<>>
  ELSE CollectFromValues(Head(blocks)) \o CollectFromBlocks(Tail(blocks))

\* PriceExtractor.extractFromEmbeddedApiPayloads
ExtractFromEmbeddedApiPayloads(html) ==
  LET payloadItems == SelectSeq(html.api, LAMBDA b : b.where = "payload")
  IN IF payloadItems = <<>> THEN <<>>
     ELSE IF html.blobEnc # "json" THEN <<>>
     ELSE Dedup(CollectFromValues(RootsOf(Take(payloadItems, ApiPayloadsLimit)))
                  \o CollectFromBlocks(Take(ScriptJsonBlocks(html), JsonScriptBlocksLimit)))

\* ------------------------------------------------ connector-local matchers
RECURSIVE JsonAttributeCandidates(_)
JsonAttributeCandidates(matches) ==
  IF matches = <<>> THEN <<>>
  ELSE LET m == Head(matches)
           name == Trim(m.name)
           price == ParseFloat(StripNonNumeric(ToStringJs(m.price)))
       IN (IF Len(m.name) >= 3 /\ m.parses /\ Len(name) > 3
                /\ ~IsNaN(price) /\ price.v > 0
           THEN <<Product(name, price.v, "api")>>
           ELSE <<>>)
            \o JsonAttributeCandidates(Tail(matches))

\* JarirBrowserConnector.extractFromProductJsonAttributes
ExtractFromProductJsonAttributes(html) ==
  JsonAttributeCandidates(Take(html.attrs, JsonAttributesLimit))

RECURSIVE GenericBlockCandidates(_)
GenericBlockCandidates(linkMatches) ==
  IF linkMatches = <<>> THEN <<>>
  ELSE LET m == Head(linkMatches)
           price == IF m.price # <<>> THEN ParseFloat(StripCommas(m.price)) ELSE Num(0)
       IN (IF m.name = <<>> \/ Len(m.name) < 4 \/ IsNaN(price) \/ price.v = 0
           THEN <<>>
           ELSE <<Product(m.name, price.v, "css-selector")>>)
            \o GenericBlockCandidates(Tail(linkMatches))

\* JarirBrowserConnector.extractFromGenericProductBlocks
ExtractFromGenericProductBlocks(html) ==
  GenericBlockCandidates(Take(html.links, GenericLinksLimit))

\* The price JarirBrowserConnector.extractFromSearchResults reads in a container.
SearchResultPrice(item) ==
  LET fromAttr == IF item.attr # <<>> THEN ParseFloat(item.attr) ELSE Num(0)
  IN IF fromAttr = Num(0) /\ item.span # <<>>
     THEN ParseFloat(StripNonNumeric(item.span))
     ELSE fromAttr

RECURSIVE SearchResultCandidates(_)
SearchResultCandidates(matches) ==
  IF matches = <<>> THEN <<>>
  ELSE LET item == Head(matches)
           name == Trim(item.name)
           price == SearchResultPrice(item)
       IN (IF name # <<>> /\ ~IsNaN(price) /\ price.v > 0
           THEN <<Product(name, price.v, "css-selector")>>
           ELSE <<>>)
            \o SearchResultCandidates(Tail(matches))

\* JarirBrowserConnector.extractFromSearchResults
ExtractFromSearchResults(html) ==
  SearchResultCandidates(Take(html.items, SearchResultsLimit))

\* The price JarirConnector.extractProductsFromHtml reads in a container.
ContainerPrice(item) ==
  LET priceMatch == IF item.attr # <<>> THEN item.attr ELSE item.span
  IN IF priceMatch # <<>> THEN ParseFloat(StripNonNumeric(priceMatch)) ELSE Num(0)

RECURSIVE ContainerCandidates(_)
ContainerCandidates(containers) ==
  IF containers = <<>> THEN <<>>
  ELSE LET item == Head(containers)
           name == Trim(item.name)
           price == ContainerPrice(item)
       IN (IF name # <<>> /\ ~IsNaN(price) /\ price.v > 0
           THEN <<Product(name, price.v, "css-selector")>>
           ELSE <<>>)
            \o ContainerCandidates(Tail(containers))

\* JarirConnector.extractProductsFromHtml
ExtractProductsFromHtml(html) == ContainerCandidates(html.items)

\* GoogleShoppingConnector.extractTitle: <<>> stands for null.
ExtractTitle(card) ==
  IF Len(Trim(card.anchor)) > 4 THEN Trim(card.anchor)
  ELSE IF Len(card.fallback) >= 4 THEN Trim(card.fallback)
  ELSE <<>>

\* GoogleShoppingConnector.extractPrice over the hits of its patterns, in
\* pattern order: NaN stands for null.
RECURSIVE ExtractPrice(_)
ExtractPrice(hits) ==
  IF hits = <<>> THEN NaN
  ELSE LET value == ParseFloat(StripCommas(Head(hits)))
       IN IF ~IsNaN(value) /\ value.v > 0 THEN value ELSE ExtractPrice(Tail(hits))

RECURSIVE ShoppingCandidates(_)
ShoppingCandidates(cardMatches) ==
  IF cardMatches = <<>> THEN <<>>
  ELSE LET card == Head(cardMatches)
           title == ExtractTitle(card)
           price == ExtractPrice(card.prices)
       IN (IF title = <<>> \/ Len(title) < 4 \/ IsNaN(price) \/ price.v = 0
           THEN <<>>
           ELSE <<Product(title, price.v, "css-selector")>>)
            \o ShoppingCandidates(Tail(cardMatches))

\* GoogleShoppingConnector.extractFromGoogleShoppingHtml
ExtractFromGoogleShoppingHtml(html) ==
  Take(Dedup(ShoppingCandidates(Take(html.cards, ShoppingCardsLimit))),
       ShoppingResultsLimit)

\* products.filter(p => p.price > 0 && p.name && p.name.length > 3)
IsValidProduct(p) == p.price > 0 /\ p.name # <<>> /\ Len(p.name) > 3

FilterValid(products) == SelectSeq(products, IsValidProduct)

\* ------------------------------------------------------------------ state
VARIABLES
  html,       \* the page the marketplace serves to the connector's fetch
  conn,       \* the connector whose operation runs: "jarir", "jarirBrowser", "google"
  op,         \* "search" (searchProduct) or "details" (getProductDetails)
  cpc,        \* where the connector operation stands
  products,   \* searchProduct's local array `products`
  consulted,  \* the extraction strategies called so far, in call order
  fetchErr,   \* the code of the error scraper.fetch raised, or "none"
  cret        \* how the connector operation ended

cvars == <<html, conn, op, cpc, products, consulted, fetchErr, cret>>

VARIABLES
  hpc,        \* where HTTPScraper.fetch stands: "idle", "request", "body", "done"
  htimer,     \* the timer of line 164: "unset", "armed", "fired", "cleared"
  hstatus,    \* the status of the response whose headers arrived, 0 before
  hpassed,    \* options.timeout has elapsed since the call started
  hserved,    \* the body of the response whose headers arrived, NoBody before
  hbody,      \* the body response.text() resolved with, NoBody before
  hthrown,    \* the error that entered the catch block, NoError before
  hret        \* how the fetch ended

hvars == <<hpc, htimer, hstatus, hserved, hpassed, hbody, hthrown, hret>>

VARIABLES
  bpc,            \* where BrowserScraperV2.fetch stands: a step, "catch" or "done"
  browser,        \* the local `browser`: "none" (undefined), "open", "closed"
  bselector,      \* options.waitForSelector is set
  bwaitOpt,       \* options.additionalWait: a number, or NoOption when omitted
  bslept,         \* the milliseconds the settle delay was armed with, NotSlept before
  bsteps,         \* the steps that ended inside the try block, in order
  closeCalls,     \* the outcomes of the browser.close() calls made, in order
  swallowed,      \* the guarded steps that failed and were swallowed
  attempts,       \* the poll loop's `attempts`
  hasProductData, \* the poll loop's `hasProductData`
  bthrown,        \* the error that entered the outer catch block, NoError before
  bfailedAt,      \* the step whose failure entered the outer catch block
  bret            \* how the fetch ended

bvars == <<bpc, browser, bselector, bwaitOpt, bslept, bsteps, closeCalls, swallowed, attempts, hasProductData, bthrown, bfailedAt, bret>>

VARIABLES
  vfn,        \* the PriceExtractor function called directly, "none" in the other runs
  vprice,     \* validatePrice: the argument `price`
  vbaseline,  \* validatePrice: the argument `baselinePrice`, or not given
  vout,       \* validatePrice: what the call returned, NotCalled before
  vpayload,   \* collectProductsFromApiObject: the argument `value`
  voutput,    \* collectProductsFromApiObject: the array `output`, NotCollected before
  vblocks,    \* extractFromJsonLd: the structured-data blocks of `html`, in document order
  vproduct,   \* extractFromJsonLd: what the call returned, NotCollected before
  vlist,      \* the dedup step: the array `products` it is given
  vdedup      \* the dedup step: the values of its Map, NotCollected before

evars == <<vfn, vprice, vbaseline, vout, vpayload, voutput, vblocks, vproduct, vlist, vdedup>>

VARIABLES
  defaultHeaders, \* the field HTTPScraper.defaultHeaders of the one instance
  fetchCalls      \* the locals of each fetch call made on the two instances

kvars == <<defaultHeaders, fetchCalls>>

VARIABLES
  targetJarir, \* the host of the fetched url includes 'jarir.com'
  pageHtml,    \* BrowserScraperV2.fetch: the local `html`, NoHtml for ''
  inflight,    \* the responses of the page and where each one's callback stands
  arrived,     \* the responses whose callback has started, in arrival order
  rpc,         \* the await at which the body of fetch stands, from page.on to the return
  payloadIn,   \* where the payload branch of each response's callback stands
  apiPayloads, \* the local `apiPayloads`: the responses pushed, in push order
  snapshot,    \* what page.content() gave, NoSnapshot before
  retained,    \* `html` as it was when page.content() ended
  domProducts, \* the local `domProducts` is not empty
  resourceUrls, \* the local `resourceUrls` is not empty
  appended,    \* the blocks the three `html +=` statements appended
  rret         \* what the call returned, NotReturned before

rvars == <<targetJarir, pageHtml, inflight, arrived, rpc, payloadIn, apiPayloads, snapshot, retained, domProducts, resourceUrls, appended, rret>>

tvars == <<hvars, bvars, evars, kvars, rvars>>

\* ScraperError codes (types.ts).
ScraperCodes == {"TIMEOUT", "BLOCKED", "PARSE_ERROR", "NETWORK_ERROR", "UNKNOWN"}

Pending == [kind |-> "pending", list |-> <<>>, code |-> "none"]
Returned(list) == [kind |-> "returned", list |-> list, code |-> "none"]
ReturnedNull == [kind |-> "null", list |-> <<>>, code |-> "none"]
Raised(code) == [kind |-> "raised", list |-> <<>>, code |-> code]

\* The strategies searchProduct of a Jarir connector calls, in source order.
Chain(c) ==
  IF c = "jarir" THEN <<"json-ld", "opengraph", "css-selectors">>
  ELSE <<"json-ld", "opengraph", "embedded-dom", "embedded-api",
         "json-attributes", "generic-blocks", "search-results">>

\* What a strategy returns for a page (null as the empty list).
Yield(strategy, page) ==
  CASE strategy = "json-ld" -> ExtractFromJsonLd(page)
    [] strategy = "opengraph" -> ExtractFromOpenGraph(page)
    [] strategy = "embedded-dom" -> ExtractFromEmbeddedDomProducts(page)
    [] strategy = "embedded-api" -> ExtractFromEmbeddedApiPayloads(page)
    [] strategy = "json-attributes" -> ExtractFromProductJsonAttributes(page)
    [] strategy = "generic-blocks" -> ExtractFromGenericProductBlocks(page)
    [] strategy = "search-results" -> ExtractFromSearchResults(page)
    [] strategy = "css-selectors" -> ExtractProductsFromHtml(page)

\* The step that follows a strategy in the connector's source.
AfterStrategy(c, strategy) ==
  LET i == CHOOSE k \in 1..Len(Chain(c)) : Chain(c)[k] = strategy
  IN IF i < Len(Chain(c)) THEN Chain(c)[i + 1] ELSE "filter"

ConnInit ==
  /\ html \in {EmptyDoc("json"), EmptyDoc("base64")}
  /\ conn = "none"
  /\ op = "none"
  /\ cpc = "idle"
  /\ products = <<>>
  /\ consulted = <<>>
  /\ fetchErr = "none"
  /\ cret = Pending

\* The marketplace's page gains one more element before it is fetched.
ServeElement(part, e) ==
  /\ cpc = "idle"
  /\ DocSize(html) < MaxDocSize
  /\ html' = [html EXCEPT ![part] = Append(@, e)]
  /\ UNCHANGED <<conn, op, cpc, products, consulted, fetchErr, cret>>
  /\ UNCHANGED tvars

\* connector.searchProduct(query) up to its await of scraper.fetch.
SearchProduct(c) ==
  /\ cpc = "idle"
  /\ conn' = c
  /\ op' = "search"
  /\ cpc' = "fetch"
  /\ UNCHANGED <<html, products, consulted, fetchErr, cret>>
  /\ UNCHANGED tvars

\* connector.getProductDetails(url) up to its await of scraper.fetch.
GetProductDetails(c) ==
  /\ cpc = "idle"
  /\ c \in {"jarir", "jarirBrowser"}
  /\ conn' = c
  /\ op' = "details"
  /\ cpc' = "fetch"
  /\ UNCHANGED <<html, products, consulted, fetchErr, cret>>
  /\ UNCHANGED tvars

\* scraper.fetch resolves with the page.
FetchReturns ==
  /\ cpc = "fetch"
  /\ cpc' = IF conn = "google" THEN "cards"
            ELSE IF op = "details" THEN "details-json-ld"
            ELSE Head(Chain(conn))
  /\ UNCHANGED <<html, conn, op, products, consulted, fetchErr, cret>>
  /\ UNCHANGED tvars

\* Mutant of OnFetchError: every operation swallows the error into null.
OnFetchErrorSwallowed(c, o, code) == ReturnedNull

\* What each operation does with an error thrown by its await of scraper.fetch:
\* searchProduct rethrows it (Jarir connectors: catch and throw; Google: no
\* handler), getProductDetails catches it and returns null.
OnFetchError(c, o, code) == IF o = "details" THEN ReturnedNull ELSE Raised(code)

\* scraper.fetch rejects with a ScraperError.
FetchRaises(code) ==
  /\ cpc = "fetch"
  /\ fetchErr' = code
  /\ cret' = OnFetchError(conn, op, code)
  /\ cpc' = "done"
  /\ UNCHANGED <<html, conn, op, products, consulted>>
  /\ UNCHANGED tvars

\* Mutant of ChainStep: the strategy is called and its result pushed whether or
\* not an earlier strategy has filled `products`.
ChainStepUnguarded(strategy) ==
  /\ cpc = strategy
  /\ op = "search"
  /\ products' = products \o Yield(strategy, html)
  /\ consulted' = Append(consulted, strategy)
  /\ cpc' = AfterStrategy(conn, strategy)
  /\ UNCHANGED <<html, conn, op, cret, fetchErr>>
  /\ UNCHANGED tvars

\* One step of searchProduct's chain: `if (products.length === 0)` call the
\* strategy and push what it returns; then go on to the next step.  (The
\* first step has no such test: `products` is still empty there.)
ChainStep(strategy) ==
  /\ cpc = strategy
  /\ op = "search"
  /\ IF products = <<>>
     THEN /\ products' = products \o Yield(strategy, html)
          /\ consulted' = Append(consulted, strategy)
     ELSE UNCHANGED <<products, consulted>>
  /\ cpc' = AfterStrategy(conn, strategy)
  /\ UNCHANGED <<html, conn, op, cret, fetchErr>>
  /\ UNCHANGED tvars

SearchJsonLd == ChainStep("json-ld")

SearchOpenGraph == ChainStep("opengraph")

SearchEmbeddedDom == ChainStep("embedded-dom")

SearchEmbeddedApi == ChainStep("embedded-api")

SearchJsonAttributes == ChainStep("json-attributes")

SearchGenericBlocks == ChainStep("generic-blocks")

SearchSearchResults == ChainStep("search-results")

SearchCssSelectors == ChainStep("css-selectors")

\* Mutant of SearchResult: the array is returned unfiltered.
SearchResultUnfiltered(list) == list

\* What searchProduct of a Jarir connector returns from its array `products`.
SearchResult(list) == FilterValid(list)

\* searchProduct: filter and return.
SearchReturn ==
  /\ cpc = "filter"
  /\ cret' = Returned(SearchResult(products))
  /\ cpc' = "done"
  /\ UNCHANGED <<html, conn, op, products, consulted, fetchErr>>
  /\ UNCHANGED tvars

\* GoogleShoppingConnector.searchProduct after the fetch.
GoogleSearch ==
  /\ cpc = "cards"
  /\ products' = ExtractFromGoogleShoppingHtml(html)
  /\ consulted' = Append(consulted, "shopping-cards")
  /\ cret' = Returned(products')
  /\ cpc' = "done"
  /\ UNCHANGED <<html, conn, op, fetchErr>>
  /\ UNCHANGED tvars

\* getProductDetails: JSON-LD, returned at once when it yields a product.
DetailsJsonLd ==
  /\ cpc = "details-json-ld"
  /\ consulted' = Append(consulted, "json-ld")
  /\ LET found == ExtractFromJsonLd(html)
     IN IF found # <<>>
        THEN cret' = Returned(found) /\ cpc' = "done"
        ELSE cret' = cret /\ cpc' = "details-opengraph"
  /\ UNCHANGED <<html, conn, op, products, fetchErr>>
  /\ UNCHANGED tvars

\* Mutant of DetailsOpenGraph: without an OpenGraph record the container
\* matcher is tried before null is returned.
DetailsOpenGraphThenCss ==
  /\ cpc = "details-opengraph"
  /\ LET found == ExtractFromOpenGraph(html)
         css == ExtractProductsFromHtml(html)
     IN /\ consulted' = IF found # <<>> THEN Append(consulted, "opengraph")
                        ELSE consulted \o <<"opengraph", "css-selectors">>
        /\ cret' = IF found # <<>> THEN Returned(found)
                   ELSE IF css # <<>> THEN Returned(<<Head(css)>>)
                   ELSE ReturnedNull
  /\ cpc' = "done"
  /\ UNCHANGED <<html, conn, op, products, fetchErr>>
  /\ UNCHANGED tvars

\* getProductDetails: OpenGraph, else null.
DetailsOpenGraph ==
  /\ cpc = "details-opengraph"
  /\ consulted' = Append(consulted, "opengraph")
  /\ LET found == ExtractFromOpenGraph(html)
     IN cret' = IF found # <<>> THEN Returned(found) ELSE ReturnedNull
  /\ cpc' = "done"
  /\ UNCHANGED <<html, conn, op, products, fetchErr>>
  /\ UNCHANGED tvars

\* ------------------------------------------------------------ HTTPScraper

\* A thrown value: its class and, for a ScraperError, its code.
NoError == [class |-> "none", code |-> "none"]
ScraperError(code) == [class |-> "ScraperError", code |-> code]
AbortError == [class |-> "AbortError", code |-> "none"]
TypeError == [class |-> "TypeError", code |-> "none"]
NonError == [class |-> "non-Error", code |-> "none"]

TPending == [kind |-> "pending", text |-> <<>>, error |-> NoError]
TReturned(text) == [kind |-> "returned", text |-> text, error |-> NoError]
TRaised(error) == [kind |-> "raised", text |-> <<>>, error |-> error]

\* HTTPScraper.isBlockedResponse: blockIndicators.
BlockIndicators ==
  << <<"c", "a", "p", "t", "c", "h", "a">>,
     <<"r", "e", "c", "a", "p", "t", "c", "h", "a">>,
     <<"h", "c", "a", "p", "t", "c", "h", "a">>,
     <<"a", "c", "c", "e", "s", "s", " ", "d", "e", "n", "i", "e", "d">>,
     <<"b", "l", "o", "c", "k", "e", "d">>,
     <<"s", "u", "s", "p", "i", "c", "i", "o", "u", "s", " ", "a", "c", "t", "i", "v", "i", "t", "y">>,
     <<"u", "n", "u", "s", "u", "a", "l", " ", "t", "r", "a", "f", "f", "i", "c">>,
     <<"c", "f", "-", "r", "a", "y">>,
     <<"c", "l", "o", "u", "d", "f", "l", "a", "r", "e">>,
     <<"d", "i", "s", "t", "i", "l", " ", "n", "e", "t", "w", "o", "r", "k", "s">>,
     <<"p", "e", "r", "i", "m", "e", "t", "e", "r", " ", "x">>,
     <<"i", "n", "c", "a", "p", "s", "u", "l", "a">> >>

RECURSIVE AnyIncluded(_, _)
AnyIncluded(text, indicators) ==
  IF indicators = <<>> THEN FALSE
  ELSE IF Includes(text, Head(indicators)) THEN TRUE
       ELSE AnyIncluded(text, Tail(indicators))

\* Mutant of IsBlockedResponse: the body is searched as it is, not lowercased.
IsBlockedResponseCaseSensitive(body) == AnyIncluded(body, BlockIndicators)

\* HTTPScraper.isBlockedResponse
IsBlockedResponse(body) == AnyIncluded(ToLowerCase(body), BlockIndicators)

\* Response.ok
ResponseOk(status) == status >= 200 /\ status <= 299

\* Mutant of StatusErrorCode: only 403 counts as blocked.
StatusErrorCodeOnly403(status) ==
  IF status = 403 THEN "BLOCKED" ELSE "NETWORK_ERROR"

\* The code of the ScraperError thrown for a response that is not ok.
StatusErrorCode(status) ==
  IF status = 403 \/ status = 429 THEN "BLOCKED" ELSE "NETWORK_ERROR"

\* Mutant of HttpCatch: an error of no known class is rethrown as it is.
HttpCatchRethrowsUnknown(error) ==
  IF error.class = "AbortError" THEN ScraperError("TIMEOUT") ELSE error

\* The catch block of HTTPScraper.fetch: what it throws for what it caught.
HttpCatch(error) ==
  IF error.class = "AbortError" THEN ScraperError("TIMEOUT")
  ELSE IF error.class = "ScraperError" THEN error
  ELSE ScraperError("UNKNOWN")

\* The statuses and the bodies a server answers with.
Statuses == {200, 204, 304, 403, 404, 429, 500, 503}

Fragments ==
  { <<"<", "p", ">", "o", "k", "<", "/", "p", ">">>,
    <<"C", "A", "P", "T", "C", "H", "A">>,
    <<"A", "c", "c", "e", "s", "s", " ", "D", "e", "n", "i", "e", "d">>,
    <<"b", "l", "o", "c", "k", "e", "d">>,
    <<"C", "f", "-", "R", "a", "y">>,
    <<" ", "p", "r", "i", "c", "e", " ", "5", " ">>,
    <<"B", "l", "o", "c", "k">>,
    <<"e", "d">> }

RECURSIVE Flatten(_)
Flatten(ss) == IF ss = <<>> THEN <<>> ELSE Head(ss) \o Flatten(Tail(ss))

Bodies == {Flatten(fs) : fs \in UNION {[1..n -> Fragments] : n \in 0..MaxFrags}}

NoBody == [got |-> FALSE, text |-> <<>>]

HttpInit ==
  /\ hpc = "idle"
  /\ htimer = "unset"
  /\ hstatus = 0
  /\ hserved = NoBody
  /\ hpassed = FALSE
  /\ hbody = NoBody
  /\ hthrown = NoError
  /\ hret = TPending

\* fetch(url, options) up to its await of the request: the timer is armed.
HttpFetch ==
  /\ hpc = "idle"
  /\ bpc = "idle"
  /\ hpc' = "request"
  /\ htimer' = "armed"
  /\ UNCHANGED <<hstatus, hserved, hpassed, hbody, hthrown, hret>>
  /\ UNCHANGED <<cvars, bvars, evars, kvars, rvars>>

\* Mutant of HttpResponse: the body is read and inspected for block
\* indicators before the status is checked.
HttpResponseBodyFirst(status, body) ==
  /\ hpc = "request"
  /\ htimer' = "cleared"
  /\ hstatus' = status
  /\ hserved' = [got |-> TRUE, text |-> body]
  /\ IF IsBlockedResponse(body)
     THEN /\ hthrown' = ScraperError("BLOCKED")
          /\ hret' = TRaised(HttpCatch(hthrown'))
          /\ hpc' = "done"
          /\ hbody' = hserved'
     ELSE IF ResponseOk(status)
     THEN /\ hpc' = "body"
          /\ UNCHANGED <<hthrown, hret, hbody>>
     ELSE /\ hthrown' = ScraperError(StatusErrorCode(status))
          /\ hret' = TRaised(HttpCatch(hthrown'))
          /\ hpc' = "done"
          /\ UNCHANGED hbody
  /\ UNCHANGED hpassed
  /\ UNCHANGED <<cvars, bvars, evars, kvars, rvars>>

\* The response headers arrive, of a response with this status and this body:
\* clearTimeout, then the status check.
HttpResponse(status, body) ==
  /\ hpc = "request"
  /\ htimer' = "cleared"
  /\ hstatus' = status
  /\ hserved' = [got |-> TRUE, text |-> body]
  /\ IF ResponseOk(status)
     THEN /\ hpc' = "body"
          /\ UNCHANGED <<hthrown, hret>>
     ELSE /\ hthrown' = ScraperError(StatusErrorCode(status))
          /\ hret' = TRaised(HttpCatch(hthrown'))
          /\ hpc' = "done"
  /\ UNCHANGED <<hpassed, hbody>>
  /\ UNCHANGED <<cvars, bvars, evars, kvars, rvars>>

\* The timeout elapses while the request is awaited: the timer fires,
\* controller.abort() rejects the request with an AbortError.
HttpTimerFires ==
  /\ hpc = "request"
  /\ htimer = "armed"
  /\ htimer' = "fired"
  /\ hpassed' = TRUE
  /\ hthrown' = AbortError
  /\ hret' = TRaised(HttpCatch(hthrown'))
  /\ hpc' = "done"
  /\ UNCHANGED <<hstatus, hserved, hbody>>
  /\ UNCHANGED <<cvars, bvars, evars, kvars, rvars>>

\* The request itself rejects (connection refused, DNS failure, ...).
HttpRequestRejects ==
  /\ hpc = "request"
  /\ hthrown' = TypeError
  /\ hret' = TRaised(HttpCatch(hthrown'))
  /\ hpc' = "done"
  /\ UNCHANGED <<htimer, hstatus, hserved, hpassed, hbody>>
  /\ UNCHANGED <<cvars, bvars, evars, kvars, rvars>>

\* The timeout elapses while the body is read: no timer is armed any more.
HttpTimeoutElapses ==
  /\ hpc = "body"
  /\ htimer = "cleared"
  /\ ~hpassed
  /\ hpassed' = TRUE
  /\ UNCHANGED <<hpc, htimer, hstatus, hserved, hbody, hthrown, hret>>
  /\ UNCHANGED <<cvars, bvars, evars, kvars, rvars>>

\* response.text() resolves with the body of the response: the block-page
\* check, then the return.
HttpBody ==
  /\ hpc = "body"
  /\ hbody' = hserved
  /\ IF IsBlockedResponse(hserved.text)
     THEN /\ hthrown' = ScraperError("BLOCKED")
          /\ hret' = TRaised(HttpCatch(hthrown'))
     ELSE /\ hret' = TReturned(hserved.text)
          /\ UNCHANGED hthrown
  /\ hpc' = "done"
  /\ UNCHANGED <<htimer, hstatus, hserved, hpassed>>
  /\ UNCHANGED <<cvars, bvars, evars, kvars, rvars>>

\* response.text() rejects (the connection drops while the body is read).
HttpBodyRejects ==
  /\ hpc = "body"
  /\ hthrown' = TypeError
  /\ hret' = TRaised(HttpCatch(hthrown'))
  /\ hpc' = "done"
  /\ UNCHANGED <<htimer, hstatus, hserved, hpassed, hbody>>
  /\ UNCHANGED <<cvars, bvars, evars, kvars, rvars>>

HttpNext ==
  \/ HttpFetch
  \/ \E status \in Statuses : \E body \in Bodies : HttpResponse(status, body)
  \/ HttpTimerFires
  \/ HttpRequestRejects
  \/ HttpTimeoutElapses
  \/ HttpBody
  \/ HttpBodyRejects

\* -------------------------------------------------------- BrowserScraperV2
\* Mutant of BrowserSteps: the settle delay comes after the snapshot.
BrowserStepsSettleLate ==
  << "launch", "newPage", "setViewport", "setUserAgent", "evaluateOnNewDocument",
     "parseUrl", "goto", "waitForNetworkIdle", "waitForSelector", "scroll",
     "poll", "content", "additionalWait", "domQuery", "resourceUrls",
     "serialize", "close", "return" >>

\* The steps of BrowserScraperV2.fetch, in source order.  A failure of a
\* guarded step (its own try/catch) is swallowed; a failure of any other step
\* reaches the outer catch block.
BrowserSteps ==
  << "launch", "newPage", "setViewport", "setUserAgent", "evaluateOnNewDocument",
     "parseUrl", "goto", "waitForNetworkIdle", "waitForSelector", "scroll",
     "poll", "additionalWait", "content", "domQuery", "resourceUrls",
     "serialize", "close", "return" >>

\* The steps wrapped in a try/catch of their own.
GuardedSteps ==
  {"goto", "waitForNetworkIdle", "waitForSelector", "scroll", "content",
   "domQuery", "resourceUrls"}

\* The steps that await nothing that can reject: the settle delay, the
\* serialization (JSON.stringify escapes what encodeURIComponent would refuse,
\* and unescape leaves btoa nothing above U+00FF) and the return.
InfallibleSteps == {"additionalWait", "serialize", "return"}

\* while (attempts < 15 && !hasProductData)
PollMaxAttempts == 15

\* options?.additionalWait ?? 3000
DefaultAdditionalWait == 3000

\* options.additionalWait: omitted, or a number of milliseconds.
NoOption == [given |-> FALSE, v |-> 0]
Option(n) == [given |-> TRUE, v |-> n]

WaitOptions == {NoOption, Option(0), Option(500)}

\* const additionalWait = options?.additionalWait ?? 3000
AdditionalWait(option) == IF option.given THEN option.v ELSE DefaultAdditionalWait

NotSlept == [slept |-> FALSE, ms |-> 0]
Slept(ms) == [slept |-> TRUE, ms |-> ms]

StepAfter(step) ==
  LET i == CHOOSE k \in 1..Len(BrowserSteps) : BrowserSteps[k] = step
  IN BrowserSteps[i + 1]

\* The step after a step, given the options: waitForSelector runs only when
\* options.waitForSelector is set.
NextStep(step, withSelector) ==
  IF StepAfter(step) = "waitForSelector" /\ ~withSelector
  THEN StepAfter("waitForSelector")
  ELSE StepAfter(step)

BrowserInit ==
  /\ bpc = "idle"
  /\ browser = "none"
  /\ bselector = FALSE
  /\ bwaitOpt = NoOption
  /\ bslept = NotSlept
  /\ bsteps = <<>>
  /\ closeCalls = <<>>
  /\ swallowed = {}
  /\ attempts = 0
  /\ hasProductData = FALSE
  /\ bthrown = NoError
  /\ bfailedAt = "none"
  /\ bret = TPending

\* fetch(url, options) is called; options.waitForSelector is set or not, and
\* options.additionalWait is a number or omitted.
BrowserFetch(withSelector, wait) ==
  /\ bpc = "idle"
  /\ hpc = "idle"
  /\ bpc' = "launch"
  /\ bselector' = withSelector
  /\ bwaitOpt' = wait
  /\ UNCHANGED <<browser, bslept, bsteps, closeCalls, swallowed, attempts, hasProductData, bthrown, bfailedAt, bret>>
  /\ UNCHANGED <<cvars, hvars, evars, kvars, rvars>>

\* puppeteer.launch resolves or rejects.
BrowserLaunch(ok) ==
  /\ bpc = "launch"
  /\ IF ok
     THEN /\ browser' = "open"
          /\ bpc' = NextStep("launch", bselector)
          /\ bsteps' = Append(bsteps, "launch")
          /\ UNCHANGED <<bthrown, bfailedAt>>
     ELSE /\ bthrown' = TypeError
          /\ bfailedAt' = "launch"
          /\ bpc' = "catch"
          /\ UNCHANGED <<browser, bsteps>>
  /\ UNCHANGED <<bselector, bwaitOpt, bslept, closeCalls, swallowed, attempts, hasProductData, bret>>
  /\ UNCHANGED <<cvars, hvars, evars, kvars, rvars>>

\* A step outside any inner try/catch: it succeeds, or what it throws (an
\* Error, or a value that is no Error) reaches the outer catch block.
BrowserFatalStep(step, outcome) ==
  /\ bpc = step
  /\ step \notin GuardedSteps \cup InfallibleSteps \cup {"launch", "poll", "close"}
  /\ IF outcome = NoError
     THEN /\ bpc' = NextStep(step, bselector)
          /\ bsteps' = Append(bsteps, step)
          /\ UNCHANGED <<bthrown, bfailedAt>>
     ELSE /\ bthrown' = outcome
          /\ bfailedAt' = step
          /\ bpc' = "catch"
          /\ UNCHANGED bsteps
  /\ UNCHANGED <<browser, bselector, bwaitOpt, bslept, closeCalls, swallowed, attempts, hasProductData, bret>>
  /\ UNCHANGED <<cvars, hvars, evars, kvars, rvars>>

\* Mutant of BrowserGuardedStep: the step has no try/catch of its own, and its
\* failure reaches the outer catch block.
BrowserGuardedStepUncaught(step, ok) ==
  /\ bpc = step
  /\ step \in GuardedSteps
  /\ IF ok
     THEN /\ bpc' = NextStep(step, bselector)
          /\ bsteps' = Append(bsteps, step)
          /\ UNCHANGED <<bthrown, bfailedAt>>
     ELSE /\ bthrown' = TypeError
          /\ bfailedAt' = step
          /\ bpc' = "catch"
          /\ UNCHANGED bsteps
  /\ UNCHANGED <<browser, bselector, bwaitOpt, bslept, closeCalls, swallowed, attempts, hasProductData, bret>>
  /\ UNCHANGED <<cvars, hvars, evars, kvars, rvars>>

\* A step inside its own try/catch: a failure is logged or ignored.
BrowserGuardedStep(step, ok) ==
  /\ bpc = step
  /\ step \in GuardedSteps
  /\ swallowed' = IF ok THEN swallowed ELSE swallowed \cup {step}
  /\ bpc' = NextStep(step, bselector)
  /\ bsteps' = Append(bsteps, step)
  /\ UNCHANGED <<browser, bselector, bwaitOpt, bslept, closeCalls, attempts, hasProductData, bthrown, bfailedAt, bret>>
  /\ UNCHANGED <<cvars, hvars, evars, kvars, rvars>>

\* Mutant of BrowserPoll: the loop goes on after a check reported data.
BrowserPollNoEarlyExit(check) ==
  /\ bpc = "poll"
  /\ attempts < PollMaxAttempts
  /\ attempts' = attempts + 1
  /\ hasProductData' = (hasProductData \/ check = "data")
  /\ swallowed' = IF check = "throws" THEN swallowed \cup {"poll"} ELSE swallowed
  /\ bpc' = IF attempts' < PollMaxAttempts THEN "poll" ELSE NextStep("poll", bselector)
  /\ bsteps' = IF bpc' = "poll" THEN bsteps ELSE Append(bsteps, "poll")
  /\ UNCHANGED <<browser, bselector, bwaitOpt, bslept, closeCalls, bthrown, bfailedAt, bret>>
  /\ UNCHANGED <<cvars, hvars, evars, kvars, rvars>>

\* One iteration of the hydration poll: the 1-second sleep, attempts++, then the
\* check, which reports data, reports none, or throws (caught in the loop).
BrowserPoll(check) ==
  /\ bpc = "poll"
  /\ attempts < PollMaxAttempts /\ ~hasProductData
  /\ attempts' = attempts + 1
  /\ hasProductData' = (check = "data")
  /\ swallowed' = IF check = "throws" THEN swallowed \cup {"poll"} ELSE swallowed
  /\ bpc' = IF attempts' < PollMaxAttempts /\ ~hasProductData'
            THEN "poll" ELSE NextStep("poll", bselector)
  /\ bsteps' = IF bpc' = "poll" THEN bsteps ELSE Append(bsteps, "poll")
  /\ UNCHANGED <<browser, bselector, bwaitOpt, bslept, closeCalls, bthrown, bfailedAt, bret>>
  /\ UNCHANGED <<cvars, hvars, evars, kvars, rvars>>

\* await new Promise(resolve => setTimeout(resolve, additionalWait))
BrowserSettle ==
  /\ bpc = "additionalWait"
  /\ bslept' = Slept(AdditionalWait(bwaitOpt))
  /\ bpc' = NextStep("additionalWait", bselector)
  /\ bsteps' = Append(bsteps, "additionalWait")
  /\ UNCHANGED <<browser, bselector, bwaitOpt, closeCalls, swallowed, attempts, hasProductData, bthrown, bfailedAt, bret>>
  /\ UNCHANGED <<cvars, hvars, evars, kvars, rvars>>

\* The three `html += ...` blocks between the last read of the page and the
\* close: no await, nothing that throws.
BrowserSerialize ==
  /\ bpc = "serialize"
  /\ bpc' = NextStep("serialize", bselector)
  /\ bsteps' = Append(bsteps, "serialize")
  /\ UNCHANGED <<browser, bselector, bwaitOpt, bslept, closeCalls, swallowed, attempts, hasProductData, bthrown, bfailedAt, bret>>
  /\ UNCHANGED <<cvars, hvars, evars, kvars, rvars>>

\* await browser.close() on the success path.
BrowserClose(ok) ==
  /\ bpc = "close"
  /\ closeCalls' = Append(closeCalls, IF ok THEN "closed" ELSE "failed")
  /\ IF ok
     THEN /\ browser' = "closed"
          /\ bpc' = NextStep("close", bselector)
          /\ bsteps' = Append(bsteps, "close")
          /\ UNCHANGED <<bthrown, bfailedAt>>
     ELSE /\ bthrown' = TypeError
          /\ bfailedAt' = "close"
          /\ bpc' = "catch"
          /\ UNCHANGED <<browser, bsteps>>
  /\ UNCHANGED <<bselector, bwaitOpt, bslept, swallowed, attempts, hasProductData, bret>>
  /\ UNCHANGED <<cvars, hvars, evars, kvars, rvars>>

\* return html
BrowserReturn ==
  /\ bpc = "return"
  /\ bret' = TReturned(<<>>)
  /\ bpc' = "done"
  /\ bsteps' = Append(bsteps, "return")
  /\ UNCHANGED <<browser, bselector, bwaitOpt, bslept, closeCalls, swallowed, attempts, hasProductData, bthrown, bfailedAt>>
  /\ UNCHANGED <<cvars, hvars, evars, kvars, rvars>>

\* Mutant of CatchClose: the catch block does not close the browser.
CatchCloseMissing(calls, launched, ok) == calls

\* The close calls after the catch block's `if (browser) await
\* browser.close().catch(() => {})`.
CatchClose(calls, launched, ok) ==
  IF launched THEN Append(calls, IF ok THEN "closed" ELSE "failed") ELSE calls

\* Mutant of BrowserCatch: a caught ScraperError is rethrown as it is.
BrowserCatchKeepsScraperError(error) ==
  IF error.class = "ScraperError" THEN error ELSE ScraperError("UNKNOWN")

\* Mutant of BrowserCatch: an Error that is no ScraperError is raised as a
\* network error, the way a failed navigation would be classified.
BrowserCatchClassifies(error) ==
  IF error.class = "TypeError" THEN ScraperError("NETWORK_ERROR") ELSE ScraperError("UNKNOWN")

\* What the catch block of BrowserScraperV2.fetch throws for what it caught.
BrowserCatch(error) == ScraperError("UNKNOWN")

\* The outer catch block: close the browser if there is one, swallowing a
\* failure of that close, then throw.
BrowserCatchBlock(ok) ==
  /\ bpc = "catch"
  /\ closeCalls' = CatchClose(closeCalls, browser # "none", ok)
  /\ browser' = IF browser # "none" /\ ok THEN "closed" ELSE browser
  /\ bret' = TRaised(BrowserCatch(bthrown))
  /\ bpc' = "done"
  /\ UNCHANGED <<bselector, bwaitOpt, bslept, bsteps, swallowed, attempts, hasProductData, bthrown, bfailedAt>>
  /\ UNCHANGED <<cvars, hvars, evars, kvars, rvars>>

FatalSteps ==
  {"newPage", "setViewport", "setUserAgent", "evaluateOnNewDocument", "parseUrl"}

BrowserNext ==
  \/ \E withSelector \in BOOLEAN : \E wait \in WaitOptions : BrowserFetch(withSelector, wait)
  \/ \E ok \in BOOLEAN : BrowserLaunch(ok)
  \/ \E step \in FatalSteps : \E outcome \in {NoError, TypeError, NonError} :
       BrowserFatalStep(step, outcome)
  \/ \E step \in GuardedSteps : \E ok \in BOOLEAN : BrowserGuardedStep(step, ok)
  \/ \E check \in {"data", "none", "throws"} : BrowserPoll(check)
  \/ BrowserSettle
  \/ BrowserSerialize
  \/ \E ok \in BOOLEAN : BrowserClose(ok)
  \/ BrowserReturn
  \/ \E ok \in BOOLEAN : BrowserCatchBlock(ok)

\* ------------------------------------------- PriceExtractor, called directly
\* The optional argument baselinePrice: undefined, or a number.
NoBaseline == [given |-> FALSE, v |-> 0]
Baseline(n) == [given |-> TRUE, v |-> n]

\* if (price > 1000000) return false
MaxPrice == 1000000

\* ratio < 0.1 || ratio > 10 for ratio = price / baselinePrice, price > 0 and
\* baselinePrice a number other than 0.
RatioSuspicious(price, baselinePrice) ==
  IF baselinePrice > 0
  THEN 10 * price < baselinePrice \/ price > 10 * baselinePrice
  ELSE TRUE

\* PriceExtractor.validatePrice
ValidatePrice(price, baseline) ==
  IF price <= 0 THEN FALSE
  ELSE IF price > MaxPrice THEN FALSE
  ELSE IF baseline.given /\ baseline.v # 0 /\ RatioSuspicious(price, baseline.v) THEN FALSE
  ELSE TRUE

NotCalled == [done |-> FALSE, value |-> FALSE]
Result(value) == [done |-> TRUE, value |-> value]

\* The arguments the extractor's functions are called with.
Prices ==
  {0 - 1, 0, 1, 5, 9, 10, 11, 50, 95, 99, 100, 101, 999, 1000, 1001, 1050,
   999999, 1000000, 1000001, 2000000}

Baselines == {NoBaseline} \cup {Baseline(n) : n \in {0 - 100, 0, 1, 10, 100, 1000, 100000}}

\* The parsed payloads collectProductsFromApiObject is called with: objects
\* with or without a name and a price, nested up to three levels.
PayloadLeaves ==
  { JObj(nIpad, JNum(5), <<>>),
    JObj(nIpad, JNum(0), <<>>),
    JObj(nIpad, JNum(0 - 5), <<>>),
    JObj(nIpad, JStr(tX), <<>>),
    JObj(nTV, JNum(7), <<>>),
    JObj(nPadTV, JNum(5), <<>>),
    JObj(nAbc, JStr(t7), <<>>),
    JObj(tNone, JNone, <<>>) }

PayloadShells == {JObj(nLong, JNum(7), <<>>), JObj(tNone, JNone, <<>>)}

PayloadMids ==
  {[shell EXCEPT !.kids = <<k>>] : shell \in PayloadShells, k \in PayloadLeaves}
    \cup {JObj(tNone, JNone, <<k1, k2>>) : k1 \in PayloadLeaves, k2 \in PayloadLeaves}

Payloads ==
  PayloadLeaves \cup PayloadMids
    \cup {[shell EXCEPT !.kids = <<m>>] : shell \in PayloadShells, m \in PayloadMids}

NotCollected == [done |-> FALSE, list |-> <<>>]
Collected(list) == [done |-> TRUE, list |-> list]

\* The structured-data blocks extractFromJsonLd is called on: those of the
\* fetched pages, a Product with a negative price and a Product without a name.
MaxBlocks == 2

JsonLdInputs ==
  LdBlocks \cup
    { [kind |-> "product", name |-> nIpad, price |-> JNum(0 - 5)],
      [kind |-> "product", name |-> tNone, price |-> JNum(7)] }

BlockLists == UNION {[1..n -> JsonLdInputs] : n \in 0..MaxBlocks}

\* The candidate lists the dedup step is given: names that differ, or differ
\* only in letter case, at equal or different prices.
MaxCandidates == 3

DedupInputs ==
  {Product(name, price, "css-selector") : name \in {nIpad, nIPAD, nLong}, price \in {5, 7}}

CandidateLists == UNION {[1..n -> DedupInputs] : n \in 0..MaxCandidates}

ExtractorIdle ==
  /\ vfn = "none"
  /\ vprice = 0
  /\ vbaseline = NoBaseline
  /\ vout = NotCalled
  /\ vpayload = JObj(tNone, JNone, <<>>)
  /\ voutput = NotCollected
  /\ vblocks = <<>>
  /\ vproduct = NotCollected
  /\ vlist = <<>>
  /\ vdedup = NotCollected

ExtractorInit ==
  /\ vout = NotCalled
  /\ voutput = NotCollected
  /\ vproduct = NotCollected
  /\ vdedup = NotCollected
  /\ \/ /\ vfn = "validatePrice"
        /\ vprice \in Prices
        /\ vbaseline \in Baselines
        /\ vpayload = JObj(tNone, JNone, <<>>)
        /\ vblocks = <<>>
        /\ vlist = <<>>
     \/ /\ vfn = "collectProductsFromApiObject"
        /\ vpayload \in Payloads
        /\ vprice = 0
        /\ vbaseline = NoBaseline
        /\ vblocks = <<>>
        /\ vlist = <<>>
     \/ /\ vfn = "extractFromJsonLd"
        /\ vblocks \in BlockLists
        /\ vprice = 0
        /\ vbaseline = NoBaseline
        /\ vpayload = JObj(tNone, JNone, <<>>)
        /\ vlist = <<>>
     \/ /\ vfn = "dedup"
        /\ vlist \in CandidateLists
        /\ vprice = 0
        /\ vbaseline = NoBaseline
        /\ vpayload = JObj(tNone, JNone, <<>>)
        /\ vblocks = <<>>

\* PriceExtractor.validatePrice(price, baselinePrice) is called and returns.
ValidatePriceCall ==
  /\ vfn = "validatePrice"
  /\ ~vout.done
  /\ vout' = Result(ValidatePrice(vprice, vbaseline))
  /\ UNCHANGED <<vfn, vprice, vbaseline, vpayload, voutput, vblocks, vproduct, vlist, vdedup>>
  /\ UNCHANGED <<cvars, hvars, bvars, kvars, rvars>>

\* PriceExtractor.collectProductsFromApiObject(value, marketplace, output) is
\* called with an empty output array and returns.
CollectCall ==
  /\ vfn = "collectProductsFromApiObject"
  /\ ~voutput.done
  /\ voutput' = Collected(CollectProductsFromApiObject(vpayload))
  /\ UNCHANGED <<vfn, vprice, vbaseline, vout, vpayload, vblocks, vproduct, vlist, vdedup>>
  /\ UNCHANGED <<cvars, hvars, bvars, kvars, rvars>>

\* PriceExtractor.extractFromJsonLd(html, marketplace) is called on a page that
\* holds these structured-data blocks and returns.
JsonLdCall ==
  /\ vfn = "extractFromJsonLd"
  /\ ~vproduct.done
  /\ vproduct' = Collected(ExtractFromJsonLd([EmptyDoc("json") EXCEPT !.ld = vblocks]))
  /\ UNCHANGED <<vfn, vprice, vbaseline, vout, vpayload, voutput, vblocks, vlist, vdedup>>
  /\ UNCHANGED <<cvars, hvars, bvars, kvars, rvars>>

\* The dedup step of extractFromEmbeddedDomProducts, of
\* extractFromEmbeddedApiPayloads and of extractFromGoogleShoppingHtml runs on
\* the candidates collected so far.
DedupCall ==
  /\ vfn = "dedup"
  /\ ~vdedup.done
  /\ vdedup' = Collected(Dedup(vlist))
  /\ UNCHANGED <<vfn, vprice, vbaseline, vout, vpayload, voutput, vblocks, vproduct, vlist>>
  /\ UNCHANGED <<cvars, hvars, bvars, kvars, rvars>>

\* ------------------------------------ several fetch calls on one instance
\* Number of fetch calls in flight on the transport instances.
MaxCalls == 2

Calls == 1..MaxCalls

\* Header names: one the instance sets by default, one it does not.
HeaderNames == {"User-Agent", "X-Extra"}

\* private defaultHeaders = {...}: the value of a header, "absent" when unset.
DefaultHeaders == [h \in HeaderNames |-> IF h = "User-Agent" THEN "default" ELSE "absent"]

\* options.headers: per header a custom value, or "keep" when the caller gives none.
HeaderOverrides == [HeaderNames -> {"keep", "custom"}]

\* const headers = {...this.defaultHeaders, ...options?.headers}
MergeHeaders(base, over) ==
  [h \in HeaderNames |-> IF over[h] # "keep" THEN over[h] ELSE base[h]]

\* Mutant of HeadersAfterMerge: the overrides are assigned into the field.
HeadersAfterMergeAssigned(base, over) == MergeHeaders(base, over)

\* this.defaultHeaders after the merge: the spread copies, the field is as before.
HeadersAfterMerge(base, over) == base

CallStatuses == {200, 403, 500}

CallBodies ==
  { <<"<", "p", ">", "o", "k", "<", "/", "p", ">">>,
    <<"C", "A", "P", "T", "C", "H", "A">> }

IdleCall ==
  [pc |-> "idle", transport |-> "none", over |-> [h \in HeaderNames |-> "keep"],
   sent |-> [h \in HeaderNames |-> "absent"], status |-> 0, body |-> NoBody,
   thrown |-> NoError, browser |-> "none", ret |-> TPending]

CallsInit ==
  /\ defaultHeaders = DefaultHeaders
  /\ fetchCalls = [c \in Calls |-> IdleCall]

\* HTTPScraper.fetch(url, options) of call c up to its await of the request.
CallHttpFetch(c, over) ==
  /\ fetchCalls[c].pc = "idle"
  /\ fetchCalls' = [fetchCalls EXCEPT ![c].pc = "request", ![c].transport = "http",
                            ![c].over = over,
                            ![c].sent = MergeHeaders(defaultHeaders, over)]
  /\ defaultHeaders' = HeadersAfterMerge(defaultHeaders, over)
  /\ UNCHANGED <<cvars, hvars, bvars, evars, rvars>>

\* The response headers of call c arrive: the status check.
CallHttpResponse(c, status) ==
  /\ fetchCalls[c].pc = "request"
  /\ fetchCalls[c].transport = "http"
  /\ fetchCalls' = IF ResponseOk(status)
              THEN [fetchCalls EXCEPT ![c].pc = "body", ![c].status = status]
              ELSE [fetchCalls EXCEPT ![c].pc = "done", ![c].status = status,
                                 ![c].thrown = ScraperError(StatusErrorCode(status)),
                                 ![c].ret = TRaised(HttpCatch(ScraperError(StatusErrorCode(status))))]
  /\ UNCHANGED defaultHeaders
  /\ UNCHANGED <<cvars, hvars, bvars, evars, rvars>>

\* The timer of call c fires while its request is awaited.
CallHttpTimerFires(c) ==
  /\ fetchCalls[c].pc = "request"
  /\ fetchCalls[c].transport = "http"
  /\ fetchCalls' = [fetchCalls EXCEPT ![c].pc = "done", ![c].thrown = AbortError,
                            ![c].ret = TRaised(HttpCatch(AbortError))]
  /\ UNCHANGED defaultHeaders
  /\ UNCHANGED <<cvars, hvars, bvars, evars, rvars>>

\* response.text() of call c resolves: the block-page check, then the return.
CallHttpBody(c, body) ==
  /\ fetchCalls[c].pc = "body"
  /\ fetchCalls' = IF IsBlockedResponse(body)
              THEN [fetchCalls EXCEPT ![c].pc = "done", ![c].body = [got |-> TRUE, text |-> body],
                                 ![c].thrown = ScraperError("BLOCKED"),
                                 ![c].ret = TRaised(HttpCatch(ScraperError("BLOCKED")))]
              ELSE [fetchCalls EXCEPT ![c].pc = "done", ![c].body = [got |-> TRUE, text |-> body],
                                 ![c].ret = TReturned(body)]
  /\ UNCHANGED defaultHeaders
  /\ UNCHANGED <<cvars, hvars, bvars, evars, rvars>>

\* BrowserScraperV2.fetch of call c launches a browser into its local `browser`.
CallBrowserFetch(c) ==
  /\ fetchCalls[c].pc = "idle"
  /\ fetchCalls' = [fetchCalls EXCEPT ![c].pc = "browsing", ![c].transport = "browser",
                            ![c].browser = "open"]
  /\ UNCHANGED defaultHeaders
  /\ UNCHANGED <<cvars, hvars, bvars, evars, rvars>>

\* BrowserScraperV2.fetch of call c ends: it closes its own browser and returns,
\* or a step failed and its catch block closes its own browser and throws.
CallBrowserEnd(c, ok) ==
  /\ fetchCalls[c].pc = "browsing"
  /\ fetchCalls' = IF ok
              THEN [fetchCalls EXCEPT ![c].pc = "done", ![c].browser = "closed",
                                 ![c].ret = TReturned(<<>>)]
              ELSE [fetchCalls EXCEPT ![c].pc = "done", ![c].browser = "closed",
                                 ![c].thrown = TypeError,
                                 ![c].ret = TRaised(BrowserCatch(TypeError))]
  /\ UNCHANGED defaultHeaders
  /\ UNCHANGED <<cvars, hvars, bvars, evars, rvars>>

CallsNext ==
  \E c \in Calls :
    \/ \E over \in HeaderOverrides : CallHttpFetch(c, over)
    \/ \E status \in CallStatuses : CallHttpResponse(c, status)
    \/ CallHttpTimerFires(c)
    \/ \E body \in CallBodies : CallHttpBody(c, body)
    \/ CallBrowserFetch(c)
    \/ \E ok \in BOOLEAN : CallBrowserEnd(c, ok)

\* ------------------------- BrowserScraperV2.fetch: the response callbacks
\* Number of responses the page produces during one fetch call.
MaxResponses == 2

Responses == 1..MaxResponses

\* text.length > 1000
HtmlMinLength == 1000

\* payload.length > 30
PayloadMinLength == 30

\* let html = '': the response or the snapshot the markup is from, its length,
\* and the blocks appended to it.
NoHtml == [from |-> 0, snap |-> FALSE, len |-> 0, blocks |-> {}]

\* A response: its host against the target's ("same"; "family": another host
\* whose URL includes 'jarir.com'; "other"), its content type, its body length.
ResponseKinds ==
  [host : {"same", "family", "other"}, ctype : {"text/html", "other"},
   len : {HtmlMinLength, HtmlMinLength + 1}]

Unsent == [state |-> "unsent", host |-> "other", ctype |-> "other", len |-> 0]

\* A response as the payload branch sees it: the content type includes 'json',
\* the URL matches apiUrlPattern, the trimmed body starts with '{' or '[', the
\* body matches apiSignalPattern, and the body's length.
PayloadKinds ==
  [ctypeJson : BOOLEAN, urlApi : BOOLEAN, looksLikeJson : BOOLEAN, signal : BOOLEAN,
   len : {PayloadMinLength, PayloadMinLength + 1}]

NoPayload ==
  [state |-> "unsent", ctypeJson |-> FALSE, urlApi |-> FALSE, looksLikeJson |-> FALSE,
   signal |-> FALSE, len |-> 0]

\* page.content(): not called yet, rejected, or resolved with a text.
NoSnapshot == [state |-> "none", len |-> 0]
SnapshotFailed == [state |-> "failed", len |-> 0]
Snapshot(len) == [state |-> "got", len |-> len]

Snapshots ==
  {SnapshotFailed} \cup
    {Snapshot(len) : len \in {0, HtmlMinLength, HtmlMinLength + 1, HtmlMinLength + 2}}

NotReturned == [done |-> FALSE, raised |-> FALSE, html |-> NoHtml]
ReturnedHtml(h) == [done |-> TRUE, raised |-> FALSE, html |-> h]
RaisedAtClose == [done |-> TRUE, raised |-> TRUE, html |-> NoHtml]

\* The awaits during which a callback of page.on('response') can run.
PageLive == {"waits", "content", "domQuery", "resourceUrls", "close"}

\* sameTargetHost || isJarirFamilyHost
HostAccepted(host, jarirTarget) == host = "same" \/ (jarirTarget /\ host = "family")

RenderIdle ==
  /\ payloadIn = [r \in Responses |-> NoPayload]
  /\ apiPayloads = <<>>
  /\ snapshot = NoSnapshot
  /\ retained = NoHtml
  /\ domProducts = FALSE
  /\ resourceUrls = FALSE
  /\ appended = {}
  /\ rret = NotReturned

CaptureIdle ==
  /\ targetJarir = FALSE
  /\ pageHtml = NoHtml
  /\ inflight = [r \in Responses |-> Unsent]
  /\ arrived = <<>>
  /\ rpc = "idle"
  /\ RenderIdle

\* page.on('response', ...) is registered and page.goto has been called.
CaptureInit ==
  /\ targetJarir \in BOOLEAN
  /\ pageHtml = NoHtml
  /\ inflight = [r \in Responses |-> Unsent]
  /\ arrived = <<>>
  /\ rpc = "waits"
  /\ RenderIdle

\* page.on('response') fires for response r, a response the payload branch
\* passes over or has finished with: the callback runs up to its
\* `await response.text()` of line 110 when the host is accepted, html is still
\* '' and the content type is text/html, and ends otherwise.
ResponseArrives(r, kind) ==
  /\ rpc \in PageLive
  /\ inflight[r].state = "unsent"
  /\ arrived' = Append(arrived, r)
  /\ inflight' = [inflight EXCEPT ![r] =
       [state |-> IF HostAccepted(kind.host, targetJarir) /\ pageHtml = NoHtml
                       /\ kind.ctype = "text/html"
                  THEN "reading" ELSE "done",
        host |-> kind.host, ctype |-> kind.ctype, len |-> kind.len]]
  /\ UNCHANGED <<targetJarir, pageHtml, rpc, payloadIn, apiPayloads, snapshot, retained, domProducts, resourceUrls, appended, rret>>
  /\ UNCHANGED <<cvars, hvars, bvars, evars, kvars>>

\* response.text() of response r resolves: if (text && text.length > 1000) html = text.
ResponseTextResolves(r) ==
  /\ rpc \in PageLive
  /\ inflight[r].state = "reading"
  /\ pageHtml' = IF inflight[r].len > HtmlMinLength
                 THEN [from |-> r, snap |-> FALSE, len |-> inflight[r].len, blocks |-> {}]
                 ELSE pageHtml
  /\ inflight' = [inflight EXCEPT ![r].state = "done"]
  /\ UNCHANGED <<targetJarir, arrived, rpc, payloadIn, apiPayloads, snapshot, retained, domProducts, resourceUrls, appended, rret>>
  /\ UNCHANGED <<cvars, hvars, bvars, evars, kvars>>

\* response.text() of response r rejects: caught and ignored by the callback.
ResponseTextRejects(r) ==
  /\ rpc \in PageLive
  /\ inflight[r].state = "reading"
  /\ inflight' = [inflight EXCEPT ![r].state = "done"]
  /\ UNCHANGED <<targetJarir, pageHtml, arrived, rpc, payloadIn, apiPayloads, snapshot, retained, domProducts, resourceUrls, appended, rret>>
  /\ UNCHANGED <<cvars, hvars, bvars, evars, kvars>>

CaptureNext ==
  \E r \in Responses :
    \/ \E kind \in ResponseKinds : ResponseArrives(r, kind)
    \/ ResponseTextResolves(r)
    \/ ResponseTextRejects(r)

\* --------------- BrowserScraperV2.fetch: the payload branch of the callbacks
\* page.on('response') fires for response r: `if (contentType.includes('json')
\* || apiUrlPattern.test(respUrl))` the callback awaits response.text(), and it
\* passes over the branch otherwise.
PayloadArrives(r, kind) ==
  /\ rpc \in PageLive
  /\ payloadIn[r].state = "unsent"
  /\ payloadIn' = [payloadIn EXCEPT ![r] =
       [state |-> IF kind.ctypeJson \/ kind.urlApi THEN "reading" ELSE "passed",
        ctypeJson |-> kind.ctypeJson, urlApi |-> kind.urlApi,
        looksLikeJson |-> kind.looksLikeJson, signal |-> kind.signal, len |-> kind.len]]
  /\ UNCHANGED <<targetJarir, pageHtml, inflight, arrived, rpc, apiPayloads, snapshot, retained, domProducts, resourceUrls, appended, rret>>
  /\ UNCHANGED <<cvars, hvars, bvars, evars, kvars>>

\* payload.length > 30 && looksLikeJson &&
\* (apiSignalPattern.test(payload) || apiUrlPattern.test(respUrl))
KeepsPayload(p) ==
  p.len > PayloadMinLength /\ p.looksLikeJson /\ (p.signal \/ p.urlApi)

\* response.text() of line 83 resolves: the payload is pushed or not.
PayloadTextResolves(r) ==
  /\ rpc \in PageLive
  /\ payloadIn[r].state = "reading"
  /\ apiPayloads' = IF KeepsPayload(payloadIn[r]) THEN Append(apiPayloads, r) ELSE apiPayloads
  /\ payloadIn' = [payloadIn EXCEPT ![r].state = "read"]
  /\ UNCHANGED <<targetJarir, pageHtml, inflight, arrived, rpc, snapshot, retained, domProducts, resourceUrls, appended, rret>>
  /\ UNCHANGED <<cvars, hvars, bvars, evars, kvars>>

\* response.text() of line 83 rejects: the callback's catch ignores it.
PayloadTextRejects(r) ==
  /\ rpc \in PageLive
  /\ payloadIn[r].state = "reading"
  /\ payloadIn' = [payloadIn EXCEPT ![r].state = "failed"]
  /\ UNCHANGED <<targetJarir, pageHtml, inflight, arrived, rpc, apiPayloads, snapshot, retained, domProducts, resourceUrls, appended, rret>>
  /\ UNCHANGED <<cvars, hvars, bvars, evars, kvars>>

PayloadNext ==
  \E r \in Responses :
    \/ \E kind \in PayloadKinds : PayloadArrives(r, kind)
    \/ PayloadTextResolves(r)
    \/ PayloadTextRejects(r)

\* ------------- BrowserScraperV2.fetch: the body of fetch, as far as `html` goes
\* The navigation, the waits, the scroll, the poll loop and the settle delay are
\* over, none of which reads or writes html: page.content() is called.
RenderWaitsEnd ==
  /\ rpc = "waits"
  /\ rpc' = "content"
  /\ UNCHANGED <<targetJarir, pageHtml, inflight, arrived, payloadIn, apiPayloads, snapshot, retained, domProducts, resourceUrls, appended, rret>>
  /\ UNCHANGED <<cvars, hvars, bvars, evars, kvars>>

\* if (freshHtml && freshHtml.length > html.length) html = freshHtml, with html
\* left as it is when page.content() threw.
ChooseMarkup(current, snap) ==
  IF snap.state = "got" /\ snap.len > 0 /\ snap.len > current.len
  THEN [from |-> 0, snap |-> TRUE, len |-> snap.len, blocks |-> current.blocks]
  ELSE current

\* page.content() resolves or rejects; page.evaluate of the DOM query is called.
RenderContent(snap) ==
  /\ rpc = "content"
  /\ snapshot' = snap
  /\ retained' = pageHtml
  /\ pageHtml' = ChooseMarkup(pageHtml, snap)
  /\ rpc' = "domQuery"
  /\ UNCHANGED <<targetJarir, inflight, arrived, payloadIn, apiPayloads, domProducts, resourceUrls, appended, rret>>
  /\ UNCHANGED <<cvars, hvars, bvars, evars, kvars>>

\* The DOM query resolves with candidates, resolves with none, or rejects;
\* page.evaluate of the resource URLs is called.
RenderDomQuery(result) ==
  /\ rpc = "domQuery"
  /\ domProducts' = (result = "some")
  /\ rpc' = "resourceUrls"
  /\ UNCHANGED <<targetJarir, pageHtml, inflight, arrived, payloadIn, apiPayloads, snapshot, retained, resourceUrls, appended, rret>>
  /\ UNCHANGED <<cvars, hvars, bvars, evars, kvars>>

\* The blocks the three `html +=` statements append.
BlocksToAppend(payloads, resources, candidates) ==
  (IF payloads # <<>> THEN {"__SCRAPER_API_PAYLOADS__", "__SCRAPER_API_ENDPOINTS__"} ELSE {})
    \cup (IF resources THEN {"__SCRAPER_RESOURCE_URLS__"} ELSE {})
    \cup (IF candidates THEN {"__SCRAPER_DOM_PRODUCTS__"} ELSE {})

\* The resource-URL query resolves with URLs, resolves with none, or rejects;
\* the blocks are appended to html and browser.close() is called.
RenderResourceUrls(result) ==
  /\ rpc = "resourceUrls"
  /\ resourceUrls' = (result = "some")
  /\ appended' = BlocksToAppend(apiPayloads, resourceUrls', domProducts)
  /\ pageHtml' = [pageHtml EXCEPT !.blocks = pageHtml.blocks \cup appended']
  /\ rpc' = "close"
  /\ UNCHANGED <<targetJarir, inflight, arrived, payloadIn, apiPayloads, snapshot, retained, domProducts, rret>>
  /\ UNCHANGED <<cvars, hvars, bvars, evars, kvars>>

\* browser.close() resolves and `return html` runs, or it rejects and the call
\* raises.
RenderClose(ok) ==
  /\ rpc = "close"
  /\ rret' = IF ok THEN ReturnedHtml(pageHtml) ELSE RaisedAtClose
  /\ rpc' = "done"
  /\ UNCHANGED <<targetJarir, pageHtml, inflight, arrived, payloadIn, apiPayloads, snapshot, retained, domProducts, resourceUrls, appended>>
  /\ UNCHANGED <<cvars, hvars, bvars, evars, kvars>>

\* The responses of a page that is rendered to the end: same-host text/html
\* bodies long enough to be retained, and JSON payloads that are kept.
RenderKinds == {k \in ResponseKinds : k.host = "same" /\ k.ctype = "text/html"}

RenderPayloadKinds ==
  {k \in PayloadKinds : k.ctypeJson /\ k.urlApi /\ k.looksLikeJson /\ k.signal}

\* Number of responses the page produces during a call that is rendered to the end.
MaxRenderResponses == 1

RenderResponses == 1..MaxRenderResponses

RenderNext ==
  \/ RenderWaitsEnd
  \/ \E snap \in Snapshots : RenderContent(snap)
  \/ \E result \in {"some", "none", "fails"} : RenderDomQuery(result)
  \/ \E result \in {"some", "none", "fails"} : RenderResourceUrls(result)
  \/ \E ok \in BOOLEAN : RenderClose(ok)
  \/ \E r \in RenderResponses :
       \/ \E kind \in RenderKinds : ResponseArrives(r, kind)
       \/ ResponseTextResolves(r)
       \/ ResponseTextRejects(r)
       \/ \E kind \in RenderPayloadKinds : PayloadArrives(r, kind)
       \/ PayloadTextResolves(r)
       \/ PayloadTextRejects(r)

Connectors == {"jarir", "jarirBrowser", "google"}

ConnNext ==
  \/ \E part \in Parts : \E e \in Universe(part) : ServeElement(part, e)
  \/ \E c \in Connectors : SearchProduct(c)
  \/ \E c \in Connectors : GetProductDetails(c)
  \/ FetchReturns
  \/ \E code \in ScraperCodes : FetchRaises(code)
  \/ SearchJsonLd
  \/ SearchOpenGraph
  \/ SearchEmbeddedDom
  \/ SearchEmbeddedApi
  \/ SearchJsonAttributes
  \/ SearchGenericBlocks
  \/ SearchSearchResults
  \/ SearchCssSelectors
  \/ SearchReturn
  \/ GoogleSearch
  \/ DetailsJsonLd
  \/ DetailsOpenGraph

vars == <<cvars, hvars, bvars, evars, kvars, rvars>>

Init == ConnInit /\ HttpInit /\ BrowserInit /\ ExtractorIdle /\ CallsInit /\ CaptureIdle

\* The connector operations over every page.
Next == ConnNext

Spec == Init /\ [][Next]_vars

\* The two transports, one fetch call.
NextTransport == HttpNext \/ BrowserNext

InitTransport == Init /\ html = EmptyDoc("json")

SpecTransport == InitTransport /\ [][NextTransport]_vars

\* The extractor's functions, each called once on arguments of its own.
NextExtractor == ValidatePriceCall \/ CollectCall \/ JsonLdCall \/ DedupCall

InitExtractor ==
  ConnInit /\ html = EmptyDoc("json") /\ HttpInit /\ BrowserInit /\ ExtractorInit
    /\ CallsInit /\ CaptureIdle

SpecExtractor == InitExtractor /\ [][NextExtractor]_vars

\* Several fetch calls on the same two transport instances, interleaved.
InitCalls == Init /\ html = EmptyDoc("json")

SpecCalls == InitCalls /\ [][CallsNext]_vars

\* The response callbacks of one BrowserScraperV2.fetch call, interleaved.
InitCapture ==
  ConnInit /\ html = EmptyDoc("json") /\ HttpInit /\ BrowserInit /\ ExtractorIdle
    /\ CallsInit /\ CaptureInit

SpecCapture == InitCapture /\ [][CaptureNext]_vars

\* The payload branch of the callbacks of one BrowserScraperV2.fetch call.
InitPayloads == InitCapture /\ targetJarir = FALSE

SpecPayloads == InitPayloads /\ [][PayloadNext]_vars

\* One BrowserScraperV2.fetch call from page.on to its return, with the
\* callbacks of its responses.
InitRender == InitCapture /\ targetJarir = FALSE

SpecRender == InitRender /\ [][RenderNext]_vars

\* What bounds the waits of a fetch call.  While the request of HTTPScraper.fetch
\* is awaited the timer of line 164 is armed, so the await ends; nothing is armed
\* while response.text() is awaited.  Every step of BrowserScraperV2.fetch ends:
\* its waits carry a timeout of their own or the driver's protocol timeout.
TransportFairness ==
  /\ WF_vars(HttpTimerFires)
  /\ WF_vars(bpc # "idle" /\ BrowserNext)

SpecTransportFair == InitTransport /\ [][NextTransport]_vars /\ TransportFairness

\* ---------------------------------------------------------------- claims
SearchReturned == cpc = "done" /\ op = "search" /\ cret.kind = "returned"

HasValid(list) == \E i \in 1..Len(list) : IsValidProduct(list[i])

\* The (lowercase(name), price) pair two duplicate records share.
SameKey(p, q) == ToLowerCase(p.name) = ToLowerCase(q.name) /\ p.price = q.price

\* C2: no list returned by searchProduct of any connector holds two elements
\* with the same (lowercase(name), price) pair.
C2_NoDuplicateKeys ==
  SearchReturned =>
    \A i, j \in 1..Len(cret.list) : i # j => ~SameKey(cret.list[i], cret.list[j])

\* C3: every element of every list returned by searchProduct of any connector
\* has price > 0 and a name longer than 3 characters.
C3_ReturnedProductsValid ==
  SearchReturned =>
    \A i \in 1..Len(cret.list) : cret.list[i].price > 0 /\ Len(cret.list[i].name) > 3

\* C3 witness: a search returned a non-empty list after its filter dropped a
\* candidate.
C3_Witness ==
  SearchReturned /\ cret.list # <<>> /\ Len(products) > Len(cret.list)

\* C4: when some strategy of the connector's chain would yield a valid
\* candidate for the fetched page, the list searchProduct returns is not empty.
C4_ValidCandidateNotLost ==
  (SearchReturned /\ conn \in {"jarir", "jarirBrowser"}) =>
    ((\E k \in 1..Len(Chain(conn)) : HasValid(Yield(Chain(conn)[k], html)))
       => cret.list # <<>>)

\* The fixed order of the strategies: structured data, social metadata, embedded
\* DOM candidates, embedded API payloads, then the pattern matchers.
StrategyRank(strategy) ==
  CASE strategy = "json-ld" -> 1
    [] strategy = "opengraph" -> 2
    [] strategy = "embedded-dom" -> 3
    [] strategy = "embedded-api" -> 4
    [] strategy = "json-attributes" -> 5
    [] strategy = "css-selectors" -> 5
    [] strategy = "generic-blocks" -> 6
    [] strategy = "search-results" -> 7

\* C5: in searchProduct of the two Jarir connectors the strategies are consulted
\* in the fixed order, each at most once; a strategy that yielded a valid
\* candidate is the last one consulted, and the returned list holds only its
\* candidates; so a valid structured-data candidate leaves every other strategy
\* unconsulted.
C5_FixedOrderShortCircuit ==
  (op = "search" /\ conn \in {"jarir", "jarirBrowser"}) =>
    /\ \A i, j \in 1..Len(consulted) :
         i < j => StrategyRank(consulted[i]) < StrategyRank(consulted[j])
    /\ \A i \in 1..Len(consulted) :
         HasValid(Yield(consulted[i], html)) =>
           /\ i = Len(consulted)
           /\ cret.kind = "returned" =>
                \A k \in 1..Len(cret.list) :
                  \E m \in 1..Len(Yield(consulted[i], html)) :
                    cret.list[k] = Yield(consulted[i], html)[m]
    /\ (consulted # <<>> /\ HasValid(ExtractFromJsonLd(html))) => consulted = <<"json-ld">>

\* C5 witness: the browser connector's search stopped at the embedded DOM
\* candidates, its third strategy, and returned them.
C5_Witness ==
  /\ SearchReturned
  /\ conn = "jarirBrowser"
  /\ consulted = <<"json-ld", "opengraph", "embedded-dom">>
  /\ cret.list # <<>>

\* C9 as claimed: an error raised by scraper.fetch inside searchProduct or
\* inside getProductDetails is raised by the operation.
C9_FetchErrorPropagates ==
  (cpc = "done" /\ fetchErr # "none") => cret = Raised(fetchErr)

\* C9 as amended: an error raised by scraper.fetch is raised unchanged by
\* searchProduct, and is caught by getProductDetails, which returns null.
C9_SearchPropagatesDetailsNull ==
  (cpc = "done" /\ fetchErr # "none") =>
    /\ op = "search" => cret = Raised(fetchErr)
    /\ op = "details" => cret = ReturnedNull

\* C9 witness: a timeout of the transport inside getProductDetails ended in null.
C9_Witness ==
  cpc = "done" /\ op = "details" /\ fetchErr = "TIMEOUT" /\ cret = ReturnedNull

\* C1: whenever BrowserScraperV2.fetch has returned or raised after a
\* successful launch, close has been called on the browser, whichever step
\* failed; close is attempted at most twice, and when the close of the success
\* path failed, the failure of the second attempt is swallowed: the call still
\* raises the ScraperError made from the first failure.
C1_BrowserClosedOnEveryExit ==
  /\ (bpc = "done" /\ browser # "none") => closeCalls # <<>>
  /\ Len(closeCalls) <= 2
  /\ (bpc = "done" /\ Len(closeCalls) = 2) =>
       /\ closeCalls[1] = "failed"
       /\ bfailedAt = "close"
       /\ bret = TRaised(ScraperError("UNKNOWN"))

\* C1 witness: the close of the success path failed, the close of the catch
\* block failed too, and the call raised.
C1_Witness ==
  bpc = "done" /\ closeCalls = <<"failed", "failed">> /\ bret.kind = "raised"

\* C6: a response that is not 2xx ends HTTPScraper.fetch with a ScraperError
\* chosen by the status alone: BLOCKED for 403 and 429, NETWORK_ERROR otherwise.
C6_StatusMapsToError ==
  (hpc = "done" /\ hstatus # 0 /\ ~(hstatus \in 200..299)) =>
    hret = TRaised(ScraperError(IF hstatus \in {403, 429}
                                THEN "BLOCKED" ELSE "NETWORK_ERROR"))

\* C6 witness: a 429 response ended the call with BLOCKED.
C6_Witness ==
  hpc = "done" /\ hstatus = 429 /\ hret = TRaised(ScraperError("BLOCKED"))

\* The text holds the indicator at some position, letter case ignored.
HoldsIgnoringCase(text, indicator) ==
  \E i \in 0..(Len(text) - Len(indicator)) :
    \A j \in 1..Len(indicator) : LowerChar(text[i + j]) = indicator[j]

HoldsBlockIndicator(text) ==
  \E k \in 1..Len(BlockIndicators) : HoldsIgnoringCase(text, BlockIndicators[k])

C8_ElapsedTimeoutRaisesTimeout ==
  (hpc = "done" /\ hpassed) => hret = TRaised(ScraperError("TIMEOUT"))

\* C10: every error that reaches the catch block of HTTPScraper.fetch or of
\* BrowserScraperV2.fetch ends the call by raising, never by returning, and
\* whatever a fetch raises is a ScraperError with one of the five codes.
C10_FailuresRaisedTyped ==
  /\ (hpc = "done" /\ hthrown # NoError) => hret.kind = "raised"
  /\ (bpc = "done" /\ bthrown # NoError) => bret.kind = "raised"
  /\ hpc = "done" => hret.kind \in {"returned", "raised"}
  /\ bpc = "done" => bret.kind \in {"returned", "raised"}
  /\ hret.kind = "raised" =>
       hret.error.class = "ScraperError" /\ hret.error.code \in ScraperCodes
  /\ bret.kind = "raised" =>
       bret.error.class = "ScraperError" /\ bret.error.code \in ScraperCodes

\* C10 witness: the request of HTTPScraper.fetch rejected with an error that is
\* no ScraperError, and the call raised a ScraperError.
C10_Witness ==
  hpc = "done" /\ hthrown = TypeError /\ hret.kind = "raised"

\* C11: when the request of HTTPScraper.fetch itself rejects (connection
\* refused, DNS failure), the call raises a ScraperError with code NETWORK_ERROR.
C11_RequestRejectionIsNetworkError ==
  (hpc = "done" /\ hthrown = TypeError) =>
    hret = TRaised(ScraperError("NETWORK_ERROR"))

\* The values a catch block can be handed.
Throwables ==
  {TypeError, AbortError, NonError} \cup {ScraperError(code) : code \in ScraperCodes}

Recovered(candidate, list) ==
  \E k \in 1..Len(list) : SameKey(list[k], candidate)

AllRecovered(candidates, list) ==
  \A i \in 1..Len(candidates) : Recovered(candidates[i], list)

\* C13: for a page whose scraper blocks are written the way BrowserScraperV2.fetch
\* writes them, extractFromEmbeddedDomProducts returns every valid candidate of
\* the embedded DOM items and extractFromEmbeddedApiPayloads every valid
\* candidate of the embedded API payloads.
C13_EmbeddedBlocksRoundTrip ==
  html.blobEnc = BlobEncoding =>
    /\ AllRecovered(DomCandidates(html.dom), ExtractFromEmbeddedDomProducts(html))
    /\ AllRecovered(
         CollectFromValues(RootsOf(SelectSeq(html.api, LAMBDA b : b.where = "payload"))),
         ExtractFromEmbeddedApiPayloads(html))

\* C14: every call of HTTPScraper.fetch and of BrowserScraperV2.fetch that has
\* started eventually returns or raises.
C14_FetchEventuallyEnds ==
  /\ (hpc = "request") ~> (hpc = "done")
  /\ (bpc = "launch") ~> (bpc = "done")

\* price / baseline < 0.1 or price / baseline > 10, for price > 0; a division
\* by 0 gives +Infinity.
RatioOutsideBand(price, baseline) ==
  IF baseline = 0 THEN TRUE
  ELSE IF baseline < 0 THEN TRUE
  ELSE price * 10 < baseline \/ price > baseline * 10

\* C15: validatePrice returns false if price <= 0 or price > 1,000,000;
\* otherwise, if a baseline is supplied, false when price/baseline < 0.1 or
\* price/baseline > 10; otherwise true.
C15_ValidatePriceAgrees ==
  vout.done =>
    vout.value =
      (IF vprice <= 0 \/ vprice > 1000000 THEN FALSE
       ELSE IF vbaseline.given THEN ~RatioOutsideBand(vprice, vbaseline.v)
       ELSE TRUE)

\* The number a price-like value carries, NaN when it carries none.
CarriedPrice(price) ==
  IF price.t = "none" THEN NaN ELSE ToNumberJs(price)

\* The candidates of an object and of everything nested in it, outermost first:
\* one for each object with a name and a price that carries a positive number.
RECURSIVE ExpectedCandidates(_)
RECURSIVE ExpectedFromValues(_)
ExpectedCandidates(record) ==
  (IF Trim(record.name) # <<>> /\ ~IsNaN(CarriedPrice(record.price))
        /\ CarriedPrice(record.price).v > 0
   THEN <<Product(Trim(record.name), CarriedPrice(record.price).v, "api")>>
   ELSE <<>>)
    \o ExpectedFromValues(record.kids)

ExpectedFromValues(values) ==
  IF values = <<>> THEN <<>>
  ELSE ExpectedCandidates(Head(values)) \o ExpectedFromValues(Tail(values))

\* C16: collectProductsFromApiObject emits one candidate for every object, at
\* any depth, that has a name and a price carrying a positive number, emits none
\* for an object whose price is not positive, and visits every nested value
\* whether or not the enclosing object matched.
C16_CollectorEmitsExactlyValid ==
  voutput.done => voutput.list = ExpectedCandidates(vpayload)

\* C17: getProductDetails calls extractFromJsonLd and then, only when that
\* yielded nothing, extractFromOpenGraph, and no other strategy; once the page
\* was fetched it returns the JSON-LD record if there is one, else the
\* OpenGraph record if there is one, else null.
C17_DetailsStructuredThenMetadata ==
  op = "details" =>
    /\ consulted \in {<<>>, <<"json-ld">>, <<"json-ld", "opengraph">>}
    /\ (cpc = "done" /\ fetchErr = "none") =>
         /\ cret = IF ExtractFromJsonLd(html) # <<>> THEN Returned(ExtractFromJsonLd(html))
                   ELSE IF ExtractFromOpenGraph(html) # <<>>
                        THEN Returned(ExtractFromOpenGraph(html))
                        ELSE ReturnedNull
         /\ consulted = IF ExtractFromJsonLd(html) # <<>> THEN <<"json-ld">>
                        ELSE <<"json-ld", "opengraph">>

\* C17 witness: a page with a product container but neither a JSON-LD nor an
\* OpenGraph record, for which getProductDetails returned null after both.
C17_Witness ==
  /\ op = "details"
  /\ cpc = "done"
  /\ fetchErr = "none"
  /\ ExtractProductsFromHtml(html) # <<>>
  /\ consulted = <<"json-ld", "opengraph">>
  /\ cret = ReturnedNull

\* What a call of HTTPScraper.fetch does when it is the only call: BLOCKED or
\* NETWORK_ERROR by the status, TIMEOUT when its timer fired, BLOCKED for a block
\* page, else the body.
OutcomeAlone(call) ==
  IF call.transport = "browser"
  THEN (IF call.thrown = NoError THEN TReturned(<<>>) ELSE TRaised(ScraperError("UNKNOWN")))
  ELSE IF call.thrown = AbortError THEN TRaised(ScraperError("TIMEOUT"))
  ELSE IF call.status \in {403, 429} THEN TRaised(ScraperError("BLOCKED"))
  ELSE IF ~(call.status \in 200..299) THEN TRaised(ScraperError("NETWORK_ERROR"))
  ELSE IF HoldsBlockIndicator(call.body.text) THEN TRaised(ScraperError("BLOCKED"))
  ELSE TReturned(call.body.text)

\* C18: whatever other calls ran before or run in between, the instance's
\* default headers are as constructed, every HTTP call sent the default
\* headers overridden by its own options.headers only, every finished call
\* ended as it would have alone, and no call is left with an open browser.
C18_CallsIndependent ==
  /\ defaultHeaders = DefaultHeaders
  /\ \A c \in Calls :
       /\ fetchCalls[c].transport = "http" =>
            fetchCalls[c].sent = MergeHeaders(DefaultHeaders, fetchCalls[c].over)
       /\ fetchCalls[c].pc = "done" =>
            /\ fetchCalls[c].ret = OutcomeAlone(fetchCalls[c])
            /\ fetchCalls[c].browser # "open"
       /\ fetchCalls[c].pc = "browsing" => fetchCalls[c].browser = "open"

\* C18 witness: a call with a custom User-Agent is still reading its body while
\* another call, made without overrides, has returned having sent the defaults.
C18_Witness ==
  \E c, d \in Calls :
    /\ c # d
    /\ fetchCalls[c].pc = "body"
    /\ fetchCalls[c].over["User-Agent"] = "custom"
    /\ fetchCalls[d].pc = "done"
    /\ fetchCalls[d].transport = "http"
    /\ fetchCalls[d].over = [h \in HeaderNames |-> "keep"]
    /\ fetchCalls[d].sent = DefaultHeaders
    /\ fetchCalls[d].ret.kind = "returned"

\* A same-host text/html response longer than 1000 characters.
QualifiesAsRawHtml(r) ==
  /\ inflight[r].host = "same"
  /\ inflight[r].ctype = "text/html"
  /\ inflight[r].len > 1000

\* The response is the first of the arrived ones that qualifies.
FirstQualifying(r) ==
  \E i \in 1..Len(arrived) :
    /\ arrived[i] = r
    /\ QualifiesAsRawHtml(r)
    /\ \A j \in 1..(i - 1) : ~QualifiesAsRawHtml(arrived[j])

\* C19: the response body held in `html` is that of the first same-host
\* text/html response longer than 1000 characters, in arrival order.
C19_FirstHtmlResponseRetained ==
  pageHtml # NoHtml => FirstQualifying(pageHtml.from)

\* The steps of BrowserScraperV2.fetch that come after the hydration poll.
PollOver ==
  bpc \in {"additionalWait", "content", "domQuery", "resourceUrls", "serialize",
           "close", "return"}

\* C20: the hydration poll makes between 1 and 15 checks; no check follows one
\* that reported product data; the loop ends before its 15th check only because
\* a check reported data; a check that throws is counted and never sends the
\* call to the catch block; after 15 checks without data the call goes on.
C20_PollBetweenOneAndFifteen ==
  /\ attempts \in 0..15
  /\ bpc = "poll" => ~hasProductData /\ attempts < 15
  /\ PollOver =>
       /\ attempts >= 1
       /\ hasProductData \/ attempts = 15
  /\ "poll" \in swallowed => attempts >= 1
  /\ bfailedAt # "poll"

\* C20 witness: fifteen checks went by without data, one of them throwing, and
\* the call is at its settle delay.
C20_Witness ==
  /\ bpc = "additionalWait"
  /\ attempts = 15
  /\ ~hasProductData
  /\ "poll" \in swallowed
  /\ bthrown = NoError

\* A step of BrowserScraperV2.fetch has ended inside the try block.
Ran(step) == \E i \in 1..Len(bsteps) : bsteps[i] = step

\* The steps whose failure BrowserScraperV2.fetch raises: launch, page
\* creation, the setup before navigation, and the close of the success path.
RaisingSteps ==
  {"launch", "newPage", "setViewport", "setUserAgent", "evaluateOnNewDocument",
   "parseUrl", "close"}

\* The steps that follow the navigation whatever failed on the way.
AlwaysRun ==
  {"goto", "waitForNetworkIdle", "scroll", "poll", "additionalWait", "content",
   "domQuery", "resourceUrls", "serialize"}

\* C21: a failure of the navigation, of the network-idle wait, of the selector
\* wait, of the scroll, of a poll check, of the snapshot, of the DOM query or of
\* the resource-URL collection never ends the call: every later step still
\* runs, and the call returns unless the final close fails; a call raises only
\* for a failure of launch, page creation, setup before navigation, or close.
C21_BestEffortStepsNeverFail ==
  /\ bfailedAt \in {"none"} \cup RaisingSteps
  /\ bret.kind = "raised" => bfailedAt \in RaisingSteps
  /\ (bpc = "done" /\ bfailedAt = "none") => bret.kind = "returned"
  /\ (bpc = "done" /\ swallowed # {}) =>
       /\ \A step \in AlwaysRun : Ran(step)
       /\ bselector => Ran("waitForSelector")
       /\ bret.kind = "returned" \/ bfailedAt = "close"

\* C21 witness: every best-effort step failed, one poll check threw, and the
\* call returned.
C21_Witness ==
  /\ bpc = "done"
  /\ swallowed = GuardedSteps \cup {"poll"}
  /\ bret.kind = "returned"

\* The place of a step that ran among the steps that ran.
Pos(step) == CHOOSE i \in 1..Len(bsteps) : bsteps[i] = step

\* Whenever step b ran, step a had run before it.
RanBefore(a, b) == Ran(b) => Ran(a) /\ Pos(a) < Pos(b)

\* C24: the fingerprint masking is installed before the navigation starts; the
\* settle delay, armed with options.additionalWait or with 3000 ms when that is
\* omitted, runs after the poll loop ended and before the snapshot is taken;
\* the blocks are appended after the snapshot; and once the page has been
\* navigated the browser is closed only after the last read of the page.
C24_StepsInFixedOrder ==
  /\ bpc = "goto" => Ran("evaluateOnNewDocument")
  /\ RanBefore("evaluateOnNewDocument", "goto")
  /\ RanBefore("poll", "additionalWait")
  /\ RanBefore("additionalWait", "content")
  /\ bpc = "content" => Ran("additionalWait")
  /\ bslept.slept <=> Ran("additionalWait")
  /\ bslept.slept => bslept.ms = (IF bwaitOpt.given THEN bwaitOpt.v ELSE 3000)
  /\ RanBefore("content", "serialize")
  /\ RanBefore("resourceUrls", "close")
  /\ (closeCalls # <<>> /\ Ran("goto")) =>
       /\ Ran("content") /\ Ran("domQuery") /\ Ran("resourceUrls")
       /\ Ran("serialize")

\* C24 witness: a call that omitted additionalWait went through every step and
\* returned after a settle delay of 3000 ms.
C24_Witness ==
  /\ bpc = "done"
  /\ bret.kind = "returned"
  /\ bwaitOpt = NoOption
  /\ bslept = Slept(3000)
  /\ Ran("serialize") /\ Ran("close")

\* C28: whatever BrowserScraperV2.fetch raises has code UNKNOWN, never TIMEOUT
\* or BLOCKED: a navigation that timed out is swallowed and leaves no trace in
\* the error, and no step inspects the page for a block.
C28_BrowserErrorsAlwaysUnknown ==
  /\ bret.kind = "raised" => bret.error.code = "UNKNOWN"
  /\ bret.kind = "raised" => bret.error.code \notin {"TIMEOUT", "BLOCKED"}
  /\ bfailedAt # "goto"
  /\ (bpc = "done" /\ "goto" \in swallowed /\ bret.kind = "raised") =>
       bfailedAt = "close" /\ bret.error = ScraperError("UNKNOWN")

\* C28 witness: the navigation timed out, the call went on, the close failed
\* and the call raised UNKNOWN.
C28_Witness ==
  /\ bpc = "done"
  /\ "goto" \in swallowed
  /\ bfailedAt = "close"
  /\ bret = TRaised(ScraperError("UNKNOWN"))

\* C29: once HTTPScraper.fetch has returned or raised, the timer it armed is
\* not pending any more: it was cleared, or it fired.
C29_TimerNotPendingAfterExit ==
  hpc = "done" => htimer \in {"cleared", "fired"}

\* C30: the body of a response is read, and inspected for block indicators, only
\* when its status is 2xx: a response with another status ends the call with
\* the error of its status alone, NETWORK_ERROR unless the status is 403 or 429,
\* whatever its body holds, and its body is never read.
C30_StatusCheckBeforeBody ==
  /\ hbody.got => ResponseOk(hstatus)
  /\ (hpc = "done" /\ hserved.got /\ ~ResponseOk(hstatus)) =>
       /\ hbody = NoBody
       /\ hret = TRaised(ScraperError(IF hstatus \in {403, 429}
                                      THEN "BLOCKED" ELSE "NETWORK_ERROR"))
  /\ (hret = TRaised(ScraperError("BLOCKED")) /\ hstatus \notin {403, 429}) =>
       ResponseOk(hstatus) /\ hbody.got /\ HoldsBlockIndicator(hbody.text)

\* C30 witness: a 500 response whose body holds a block indicator ended the
\* call with NETWORK_ERROR, its body unread.
C30_Witness ==
  /\ hpc = "done"
  /\ hstatus = 500
  /\ hserved.got /\ HoldsBlockIndicator(hserved.text)
  /\ hbody = NoBody
  /\ hret = TRaised(ScraperError("NETWORK_ERROR"))

\* The first block, in document order, that is a Product with a name and a price
\* carrying a number above 0, as a list of at most one record.
RECURSIVE ExpectedJsonLd(_)
ExpectedJsonLd(blocks) ==
  IF blocks = <<>> THEN <<>>
  ELSE LET b == Head(blocks)
       IN IF b.kind = "product" /\ b.name # <<>> /\ ~IsNaN(CarriedPrice(b.price))
               /\ CarriedPrice(b.price).v > 0
          THEN <<Product(b.name, CarriedPrice(b.price).v, "json-ld")>>
          ELSE ExpectedJsonLd(Tail(blocks))

\* C25: extractFromJsonLd returns the product of the first block, in document
\* order, that is a Product with a name and a price above 0, whatever blocks
\* precede it (unparsable, not a Product, price invalid), and returns null when
\* there is no such block.
C25_FirstValidBlockWins ==
  vproduct.done => vproduct.list = ExpectedJsonLd(vblocks)

\* s is t with some elements left out.
RECURSIVE IsSubsequence(_, _)
IsSubsequence(s, t) ==
  IF s = <<>> THEN TRUE
  ELSE IF t = <<>> THEN FALSE
  ELSE IF Head(s) = Head(t) THEN IsSubsequence(Tail(s), Tail(t))
  ELSE IsSubsequence(s, Tail(t))

\* Two candidates are duplicates: same name up to letter case, same price.
Duplicates(p, q) == ToLowerCase(p.name) = ToLowerCase(q.name) /\ p.price = q.price

\* The candidate at place i is the first of its duplicates.
FirstOfKey(list, i) == \A j \in 1..(i - 1) : ~Duplicates(list[j], list[i])

\* The candidates of a list that are the first of their key, from place i on.
RECURSIVE FirstsFrom(_, _)
FirstsFrom(list, i) ==
  IF i > Len(list) THEN <<>>
  ELSE (IF FirstOfKey(list, i) THEN <<list[i]>> ELSE <<>>) \o FirstsFrom(list, i + 1)

\* C26: the dedup step keeps exactly the candidates that are the first of their
\* (lowercase(name), price) key, in the order they came: its output is a
\* subsequence of its input, holds no two duplicates, holds the first candidate
\* of every key, and is left unchanged by a second run of the step.
C26_DedupKeepsFirstInOrder ==
  vdedup.done =>
    /\ IsSubsequence(vdedup.list, vlist)
    /\ \A i, j \in 1..Len(vdedup.list) :
         i # j => ~Duplicates(vdedup.list[i], vdedup.list[j])
    /\ vdedup.list = FirstsFrom(vlist, 1)
    /\ Dedup(vdedup.list) = vdedup.list

\* C26 witness: of three candidates the first and the last differ only in the
\* letter case of the name, and the step kept the first two.
C26_Witness ==
  /\ vdedup.done
  /\ vlist = <<Product(nIpad, 5, "css-selector"), Product(nLong, 5, "css-selector"),
               Product(nIPAD, 5, "css-selector")>>
  /\ vdedup.list = <<Product(nIpad, 5, "css-selector"), Product(nLong, 5, "css-selector")>>

\* The markup of a value of `html`: what it is from and its length, without
\* the blocks appended to it.
MarkupOf(h) == [from |-> h.from, snap |-> h.snap, len |-> h.len]

\* C22: the markup of the returned string is the snapshot only when
\* page.content() gave one longer than the response body retained by then, and
\* it is a retained response body (or nothing) only when no snapshot was
\* obtained that is longer than it.
C22_MarkupIsLongerSnapshotElseResponse ==
  (rret.done /\ ~rret.raised) =>
    IF rret.html.snap
    THEN snapshot.state = "got" /\ snapshot.len > retained.len
           /\ rret.html.len = snapshot.len
    ELSE ~(snapshot.state = "got" /\ snapshot.len > rret.html.len)

\* The callback of response r has made its decision on a body it could see.
PayloadSeen(r) == payloadIn[r].state \in {"passed", "read"}

PayloadKept(r) == \E i \in 1..Len(apiPayloads) : apiPayloads[i] = r

\* C23: an intercepted response is kept as a candidate payload exactly when its
\* body is JSON-shaped and it holds a price-signal key or comes from an
\* API-like URL.
C23_PayloadsRetainedExactly ==
  \A r \in Responses :
    PayloadSeen(r) =>
      (PayloadKept(r) <=>
         payloadIn[r].looksLikeJson /\ (payloadIn[r].signal \/ payloadIn[r].urlApi))

\* C27: the returned string holds the markup chosen at the snapshot, when there
\* was any, and every block the serialization appended: no callback that
\* completed after the snapshot replaced them.
C27_LateCallbackNeverReplaces ==
  (rret.done /\ ~rret.raised) =>
    /\ appended \subseteq rret.html.blocks
    /\ ChooseMarkup(retained, snapshot) # NoHtml =>
         MarkupOf(rret.html) = MarkupOf(ChooseMarkup(retained, snapshot))

=============================================================================
